---- MODULE Spec2Model ----
(***************************************************************************)
(* Bebop-targeting scheduling engine: parser, pitch utilities, rhythm      *)
(* placement, contour generator, formula policy, RNG and scheduler,        *)
(* modelled from the TypeScript sources.                                   *)
(*                                                                         *)
(* Conventions.                                                            *)
(*  - A JavaScript value that may be null is a sequence of length 0 or 1.  *)
(*  - A chord symbol is a record [letter, acc, quality]: the text is       *)
(*    letter ++ acc ++ quality.  The glyphs the sources use outside ASCII  *)
(*    are spelled "DELTA" (the triangle of a major seventh chord) and, in  *)
(*    degree labels, "_b" (the flat sign) and "_#" (the sharp sign).       *)
(*  - A 32-bit word is a record [hi, lo] of two 16-bit halves.             *)
(*  - Fractions: a slider is given in tenths, a weight multiplier in       *)
(*    tenths, a repetition penalty in twentieths, a contour score in       *)
(*    thousandths.                                                         *)
(***************************************************************************)
EXTENDS Integers, Sequences, FiniteSets, TLC

(***************************************************************************)
(* Bounds of the model                                                     *)
(***************************************************************************)
MaxBars == 2
MaxCalls == 4
MaxRepeats == 16
MaxFormula == 9
MaxVariants == 3

(***************************************************************************)
(* Program constants                                                       *)
(***************************************************************************)
MIN_MIDI == 60
MAX_MIDI == 84
DEFAULT_MIN_MIDI == 60
DEFAULT_MAX_MIDI == 84

Abs(x) == IF x < 0 THEN -x ELSE x
Min2(a, b) == IF a < b THEN a ELSE b
Max2(a, b) == IF a > b THEN a ELSE b

\* JavaScript's %: the remainder has the sign of the dividend.
JsRem(a, n) == IF a >= 0 THEN a % n ELSE -((-a) % n)

(***************************************************************************)
(* pitch.ts                                                                *)
(***************************************************************************)
Letters == <<"C", "D", "E", "F", "G", "A", "B">>

NOTE_TO_SEMITONE ==
  [C |-> 0, D |-> 2, E |-> 4, F |-> 5, G |-> 7, A |-> 9, B |-> 11]

\* accidentalRaw.split("").reduce(...): +1 per "#", -1 per "b".
AccidentalOffset(acc) ==
  CASE acc = "" -> 0
    [] acc = "#" -> 1
    [] acc = "##" -> 2
    [] acc = "b" -> -1
    [] acc = "bb" -> -2

\* The textual name `${preferred}${octave}` as [letter, acc, octave].
midiToPitch(midi) ==
  LET octave == (midi \div 12) - 1
      semitone == ((midi % 12) + 12) % 12
      names == SelectSeq(Letters, LAMBDA l : NOTE_TO_SEMITONE[l] = semitone)
      preferred == IF Len(names) > 0 THEN names[1] ELSE "C"
  IN [letter |-> preferred, acc |-> "", octave |-> octave]

pitchNameToMidi(pitch) ==
  (pitch.octave + 1) * 12 + NOTE_TO_SEMITONE[pitch.letter] + AccidentalOffset(pitch.acc)

rootToMidi(letter, acc, octave) ==
  (octave + 1) * 12 + NOTE_TO_SEMITONE[letter] + AccidentalOffset(acc)

\* normalizeDegreeToken: the flat and sharp glyphs become "b" and "#".
normalizeDegreeToken(raw) ==
  CASE raw = "_b7" -> "b7"
    [] raw = "_b3" -> "b3"
    [] raw = "_b5" -> "b5"
    [] raw = "_#5" -> "#5"
    [] raw = "_b_b7" -> "bb7"
    [] OTHER -> raw

DEGREE_TO_OFFSET ==
  [x \in {"1", "b2", "#1", "2", "9", "b3", "#2", "3", "4", "11", "#4", "b5",
          "5", "#5", "b6", "6", "13", "bb7", "b7", "7", "7M"} |->
     CASE x = "1" -> 0
       [] x \in {"b2", "#1"} -> 1
       [] x \in {"2", "9"} -> 2
       [] x \in {"b3", "#2"} -> 3
       [] x = "3" -> 4
       [] x \in {"4", "11"} -> 5
       [] x \in {"#4", "b5"} -> 6
       [] x = "5" -> 7
       [] x \in {"#5", "b6"} -> 8
       [] x \in {"6", "13", "bb7"} -> 9
       [] x = "b7" -> 10
       [] x \in {"7", "7M"} -> 11]

\* degreeToSemitoneOffset throws for an unknown label: DegreeKnown is its guard.
DegreeKnown(degree) == normalizeDegreeToken(degree) \in DOMAIN DEGREE_TO_OFFSET

degreeToSemitoneOffset(degree) == DEGREE_TO_OFFSET[normalizeDegreeToken(degree)]

RECURSIVE WrapUp(_, _)
WrapUp(value, min) == IF value < min THEN WrapUp(value + 12, min) ELSE value

RECURSIVE WrapDown(_, _)
WrapDown(value, max) == IF value > max THEN WrapDown(value - 12, max) ELSE value

\* wrapMidiToRange, for min <= max (it throws otherwise).
wrapMidiToRange(midi, min, max) ==
  LET v1 == WrapUp(midi, min)
      v2 == WrapDown(v1, max)
      v3 == IF v2 < min THEN min ELSE v2
  IN IF v3 > max THEN max ELSE v3

(***************************************************************************)
(* rhythm.ts (the version with landing preferences)                        *)
(***************************************************************************)
getLandingOptions(window) ==
  IF window.lengthEighths = 4 THEN <<1, 3>> ELSE <<1, 3, 5, 7>>

SeqHas(s, x) == \E i \in 1..Len(s) : s[i] = x

\* Appends to acc, in order, the elements of s that pass keep and are not in acc.
RECURSIVE PushUnseen(_, _, _)
PushUnseen(acc, s, keep) ==
  IF s = <<>> THEN acc
  ELSE CHOOSE result \in
         {PushUnseen(pushed, Tail(s), keep) :
            pushed \in {IF SeqHas(keep, Head(s)) /\ ~SeqHas(acc, Head(s))
                          THEN Append(acc, Head(s)) ELSE acc}} : TRUE

\* Mutant of mergeLandingPreferences: the preferred offsets are not intersected
\* with the legal ones.
mergeLandingPreferencesUnfiltered(base, preferred) ==
  IF preferred = <<>> THEN base ELSE preferred \o base

\* Mutant of mergeLandingPreferences: the preferred order is ignored.
mergeLandingPreferencesIgnored(base, preferred) == base

mergeLandingPreferences(base, preferred) ==
  IF preferred = <<>> THEN base
  ELSE LET fromPreferred == PushUnseen(<<>>, preferred, base)
           merged == PushUnseen(fromPreferred, base, base)
       IN IF Len(merged) > 0 THEN merged ELSE base

\* Mutant of pickLanding: the offset is not added to the window's start.
pickLandingNoStart(window, preferred) ==
  LET options == mergeLandingPreferences(getLandingOptions(window), preferred)
  IN IF Len(options) > 0 THEN options[1] ELSE 1

pickLanding(window, preferred) ==
  LET options == mergeLandingPreferences(getLandingOptions(window), preferred)
      offset == IF Len(options) > 0 THEN options[1] ELSE 1
  IN window.startEighth + offset

\* computeRhythmPlacement, for formulaLength >= 1 (it throws otherwise).
\* Mutant of computeRhythmPlacement: the parity is approachStart % 2 without
\* Math.abs, which is -1 for a negative odd approachStart.
computeRhythmPlacementSigned(window, formulaLength, preferredLanding) ==
  LET landing == pickLanding(window, preferredLanding)
      approachStart == landing - (formulaLength - 1)
      parity == JsRem(approachStart, 2)
      isolated == IF parity = 1 THEN <<approachStart - 1>> ELSE <<>>
      totalStart == IF isolated # <<>> THEN isolated[1] ELSE approachStart
  IN [landing |-> landing, approachStart |-> approachStart,
      totalStart |-> totalStart, isolated |-> isolated]

computeRhythmPlacement(window, formulaLength, preferredLanding) ==
  LET landing == pickLanding(window, preferredLanding)
      approachStart == landing - (formulaLength - 1)
      parity == Abs(JsRem(approachStart, 2))
      isolated == IF parity = 1 THEN <<approachStart - 1>> ELSE <<>>
      totalStart == IF isolated # <<>> THEN isolated[1] ELSE approachStart
  IN [landing |-> landing, approachStart |-> approachStart,
      totalStart |-> totalStart, isolated |-> isolated]

(***************************************************************************)
(* parser.ts                                                               *)
(***************************************************************************)
\* normalizeToken on the quality part of a token: the triangle becomes "maj7".
normalizeToken(tok) ==
  [tok EXCEPT !.quality = IF @ = "DELTA" THEN "maj7" ELSE @]

\* parseProgression over the bars of the text (each a sequence of tokens).
\* A bar with more than two tokens throws.
RECURSIVE ParseBars(_, _, _)
ParseBars(bars, cursor, result) ==
  IF bars = <<>> THEN [ok |-> TRUE, windows |-> result]
  ELSE LET tokens == Head(bars) IN
       IF Len(tokens) = 0 THEN ParseBars(Tail(bars), cursor, result)
       ELSE IF Len(tokens) > 2 THEN [ok |-> FALSE, windows |-> <<>>]
       ELSE IF Len(tokens) = 1 THEN
         ParseBars(Tail(bars), cursor + 8,
                   Append(result, [chordSymbol |-> normalizeToken(tokens[1]),
                                   startEighth |-> cursor, lengthEighths |-> 8]))
       ELSE
         ParseBars(Tail(bars), cursor + 8,
                   result \o <<[chordSymbol |-> normalizeToken(tokens[1]),
                                startEighth |-> cursor, lengthEighths |-> 4],
                               [chordSymbol |-> normalizeToken(tokens[2]),
                                startEighth |-> cursor + 4, lengthEighths |-> 4]>>)

\* Mutant of parseProgression: the cursor starts on the second half of a bar.
parseProgressionFromFour(prog) == ParseBars(prog, 4, <<>>)

parseProgression(prog) == ParseBars(prog, 0, <<>>)

(***************************************************************************)
(* theory.ts.  The dictionary data/theory.json is an external store: the   *)
(* profiles and the catalog below stand for its contents.                  *)
(***************************************************************************)
\* QUALITY_ALIASES, for the qualities used here; an unknown quality throws.
QUALITY_ALIASES ==
  ("" :> "maj7") @@ ("maj7" :> "maj7") @@ ("m7" :> "m7") @@ ("m9" :> "m7") @@
  ("7" :> "7") @@ ("13" :> "7") @@ ("sus" :> "frig") @@ ("frig" :> "frig")

\* theory.chords: per quality, the targets (degree label -> formula type).
\* A type other than 1 and 2 is written 0.
TheoryChords ==
  ("maj7" :> (("1" :> 1) @@ ("3" :> 2) @@ ("5" :> 1) @@ ("7M" :> 2))) @@
  ("m7" :> (("1" :> 1) @@ ("_b3" :> 1) @@ ("5" :> 1) @@ ("_b7" :> 1) @@ ("9" :> 2))) @@
  ("7" :> (("3" :> 2) @@ ("_b7" :> 1) @@ ("13" :> 1) @@ ("9" :> 1))) @@
  ("frig" :> (("4" :> 0) @@ ("5" :> 1)))

\* theory.formulas: per type, the groups in file order with their patterns.
TheoryFormulas ==
  (1 :> << [group |-> "dobles", formulas |-> << <<2, 0>> >>],
           [group |-> "triples", formulas |-> << <<2, -1, 0>> >>],
           [group |-> "quintuples", formulas |-> << <<2, -1, 1, -2, 0>> >>] >>) @@
  (2 :> << [group |-> "simples", formulas |-> << <<0>> >>],
           [group |-> "cuadruples", formulas |-> << <<1, -2, -1, 0>> >>],
           [group |-> "sextuples", formulas |-> << <<13, 2, 1, -1, -14, 0>> >>],
           [group |-> "octuples", formulas |-> << <<3, 2, 1, -1, -2, -3, 1, 0>> >>] >>)

\* extractQuality / normalizeQuality: defined iff the root matches and the
\* quality has an alias (QualityKnown); the alias otherwise.
RootKnown(symbol) == symbol.letter \in DOMAIN NOTE_TO_SEMITONE

QualityKnown(symbol) == RootKnown(symbol) /\ symbol.quality \in DOMAIN QUALITY_ALIASES

\* getChordProfile: the targets of the symbol's quality, for QualityKnown symbols.
getChordProfile(symbol) == TheoryChords[QUALITY_ALIASES[symbol.quality]]

getFormulas(tipo) == TheoryFormulas[tipo]

(***************************************************************************)
(* contour.ts                                                              *)
(***************************************************************************)
DEGREE_PRIORITY ==
  <<"3", "5", "1", "7M", "_b7", "4", "6", "_b3", "_#5", "_b5", "_b_b7">>

\* The order localeCompare gives the degree labels that appear in profiles.
LocaleOrder ==
  <<"_b_b7", "_b3", "_b5", "_b7", "_#5", "1", "13", "3", "4", "5", "6", "7M", "9">>

RECURSIVE IndexOf(_, _, _)
IndexOf(s, x, i) ==
  IF i > Len(s) THEN -1 ELSE IF s[i] = x THEN i - 1 ELSE IndexOf(s, x, i + 1)

priorityIndex(degree) ==
  LET index == IndexOf(DEGREE_PRIORITY, degree, 1)
  IN IF index = -1 THEN Len(DEGREE_PRIORITY) ELSE index

\* The comparator of degrees.sort: priority first, then localeCompare.
DegreeBefore(a, b) ==
  LET delta == priorityIndex(a) - priorityIndex(b)
  IN IF delta # 0 THEN delta < 0
     ELSE IndexOf(LocaleOrder, a, 1) < IndexOf(LocaleOrder, b, 1)

RECURSIVE SortDegrees(_)
SortDegrees(degrees) ==
  IF degrees = {} THEN <<>>
  ELSE LET first == CHOOSE d \in degrees :
                      \A e \in degrees \ {d} : DegreeBefore(d, e)
       IN <<first>> \o SortDegrees(degrees \ {first})

\* Mutant of computeEffectiveRange: the padding narrows the floor only.
computeEffectiveRangeFloorOnly(slider, minMidi, maxMidi) ==
  LET given == IF slider = <<>> THEN 4 ELSE slider[1]
      ratio == Min2(Max2(given, 0), 10)
      padding == (ratio * 8 + 5) \div 10
  IN <<Min2(maxMidi, minMidi + padding), maxMidi>>

\* clamp(slider ?? 0.4, 0, 1) and Math.round(ratio * 8), slider in tenths.
computeEffectiveRange(slider, minMidi, maxMidi) ==
  LET given == IF slider = <<>> THEN 4 ELSE slider[1]
      ratio == Min2(Max2(given, 0), 10)
      padding == (ratio * 8 + 5) \div 10
      effectiveMin == Min2(maxMidi, minMidi + padding)
      effectiveMax == Max2(effectiveMin, maxMidi - padding)
  IN <<effectiveMin, effectiveMax>>

\* Math.round((minMidi + maxMidi) / 2): halves round up.
computeRootMidi(symbol, minMidi, maxMidi) ==
  LET mid == (minMidi + maxMidi + 1) \div 2
      m0 == rootToMidi(symbol.letter, symbol.acc, 4)
      m1 == WrapUp(m0, minMidi)
      m2 == WrapDown(m1, maxMidi)
      m3 == IF Abs(mid - (m2 + 12)) < Abs(mid - m2) /\ m2 + 12 <= maxMidi
              THEN m2 + 12 ELSE m2
  IN IF Abs(mid - (m3 - 12)) < Abs(mid - m3) /\ m3 - 12 >= minMidi
       THEN m3 - 12 ELSE m3

RECURSIVE CandidatesUp(_, _, _)
CandidatesUp(midi, minMidi, maxMidi) ==
  IF midi > maxMidi THEN {}
  ELSE (IF midi >= minMidi THEN {midi} ELSE {}) \cup
       CandidatesUp(midi + 12, minMidi, maxMidi)

RECURSIVE CandidatesDown(_, _, _)
CandidatesDown(midi, minMidi, maxMidi) ==
  IF midi < minMidi THEN {}
  ELSE (IF midi <= maxMidi THEN {midi} ELSE {}) \cup
       CandidatesDown(midi - 12, minMidi, maxMidi)

RECURSIVE SortAscending(_)
SortAscending(set) ==
  IF set = {} THEN <<>>
  ELSE LET least == CHOOSE x \in set : \A y \in set : x <= y
       IN <<least>> \o SortAscending(set \ {least})

resolveDegreeCandidates(rootMidi, degree, minMidi, maxMidi) ==
  LET base == rootMidi + degreeToSemitoneOffset(degree)
  IN SortAscending(CandidatesUp(base, minMidi, maxMidi) \cup
                   CandidatesDown(base - 12, minMidi, maxMidi))

\* The anchor, in thousandths of a semitone.
\* Mutant of Desired: the anchor is the register's midpoint on every call.
DesiredMidpoint(gen) == (gen.rangeMin + gen.rangeMax) * 500

Desired(gen) ==
  IF gen.lastMidi = <<>> THEN (gen.rangeMin + gen.rangeMax) * 500
  ELSE IF gen.direction = 1 THEN gen.rangeMax * 1000 ELSE gen.rangeMin * 1000

\* The inner loop: the candidate nearest the anchor, the first one winning
\* unless a later one is nearer by more than 1e-3.
RECURSIVE NearestCandidate(_, _, _, _)
NearestCandidate(candidates, desired, candidateMidi, bestDiff) ==
  IF candidates = <<>> THEN [midi |-> candidateMidi, diff |-> bestDiff]
  ELSE LET diff == Abs(Head(candidates) * 1000 - desired)
       IN IF diff < bestDiff - 1
            THEN NearestCandidate(Tail(candidates), desired, Head(candidates), diff)
            ELSE NearestCandidate(Tail(candidates), desired, candidateMidi, bestDiff)

\* The outer loop over the sorted degrees; best.found is bestScore < Infinity.
RECURSIVE ScanDegrees(_, _, _, _)
ScanDegrees(degrees, rootMidi, gen, best) ==
  IF degrees = <<>> THEN best
  ELSE LET degree == Head(degrees)
           candidates == resolveDegreeCandidates(rootMidi, degree, gen.rangeMin, gen.rangeMax)
       IN IF candidates = <<>> THEN ScanDegrees(Tail(degrees), rootMidi, gen, best)
          ELSE LET near == NearestCandidate(candidates, Desired(gen), candidates[1],
                                            Abs(candidates[1] * 1000 - Desired(gen)))
                   score == near.diff + priorityIndex(degree) * 100
               IN IF ~best.found \/ score < best.score
                    THEN ScanDegrees(Tail(degrees), rootMidi, gen,
                                     [found |-> TRUE, score |-> score,
                                      degree |-> degree, midi |-> near.midi])
                    ELSE ScanDegrees(Tail(degrees), rootMidi, gen, best)

\* Mutant of NextDirection: away from the register's ends the direction is kept.
NextDirectionNoFlip(gen, lastMidi) ==
  IF lastMidi >= gen.rangeMax - 2 THEN -1
  ELSE IF lastMidi <= gen.rangeMin + 2 THEN 1
  ELSE gen.direction

\* Mutant of NextDirection: the direction is never updated.
NextDirectionKept(gen, lastMidi) == gen.direction

\* The direction after a pick.
NextDirection(gen, lastMidi) ==
  IF lastMidi >= gen.rangeMax - 2 THEN -1
  ELSE IF lastMidi <= gen.rangeMin + 2 THEN 1
  ELSE IF gen.direction = 1 THEN -1 ELSE 1

\* createContourGenerator({slider}) with the default register.
createContourGenerator(slider) ==
  LET range == computeEffectiveRange(slider, DEFAULT_MIN_MIDI, DEFAULT_MAX_MIDI)
  IN [rangeMin |-> range[1], rangeMax |-> range[2], lastMidi |-> <<>>, direction |-> 1]

\* createContourGenerator({slider, startMidi}): lastMidi = options.startMidi ?? null.
createContourGeneratorFrom(slider, startMidi) ==
  [createContourGenerator(slider) EXCEPT !.lastMidi = startMidi]

\* nextTarget: [ok, gen, target]; ok = FALSE when the call throws (no targets,
\* no root, an unknown degree label, or no candidate inside the register).
nextTarget(gen, chordSymbol, profile) ==
  LET failed == [ok |-> FALSE, gen |-> gen, target |-> <<>>]
      degrees == DOMAIN profile
  IN IF degrees = {} \/ ~RootKnown(chordSymbol) THEN failed
     ELSE IF \E d \in degrees : ~DegreeKnown(d) THEN failed
     ELSE LET sortedDegrees == SortDegrees(degrees)
              rootMidi == computeRootMidi(chordSymbol, gen.rangeMin, gen.rangeMax)
              best == ScanDegrees(sortedDegrees, rootMidi, gen,
                                  [found |-> FALSE, score |-> 0,
                                   degree |-> sortedDegrees[1], midi |-> 0])
          IN IF ~best.found THEN failed
             ELSE LET lastMidi == wrapMidiToRange(best.midi, gen.rangeMin, gen.rangeMax)
                  IN [ok |-> TRUE,
                      gen |-> [gen EXCEPT !.lastMidi = <<lastMidi>>,
                                          !.direction = NextDirection(gen, lastMidi)],
                      target |-> <<[degree |-> best.degree, midi |-> lastMidi,
                                    pitch |-> midiToPitch(lastMidi)]>>]

(***************************************************************************)
(* rng.ts.  32-bit words are [hi, lo]; generator() returns word / UINT32_MAX *)
(* and is kept as the word, comparisons being made exactly.                *)
(***************************************************************************)
Half == 65536

RECURSIVE BitXor(_, _, _)
BitXor(x, y, n) ==
  IF n = 0 THEN 0
  ELSE ((((x % 2) + (y % 2)) % 2)) + 2 * BitXor(x \div 2, y \div 2, n - 1)

RECURSIVE BitOr(_, _, _)
BitOr(x, y, n) ==
  IF n = 0 THEN 0
  ELSE (IF (x % 2) + (y % 2) > 0 THEN 1 ELSE 0) + 2 * BitOr(x \div 2, y \div 2, n - 1)

RECURSIVE Pow2(_)
Pow2(k) == IF k = 0 THEN 1 ELSE 2 * Pow2(k - 1)

WXor(a, b) == [hi |-> BitXor(a.hi, b.hi, 16), lo |-> BitXor(a.lo, b.lo, 16)]

WOr(a, b) == [hi |-> BitOr(a.hi, b.hi, 16), lo |-> BitOr(a.lo, b.lo, 16)]

\* a >>> k, for 0 < k < 16.
WShr(a, k) ==
  [hi |-> a.hi \div Pow2(k),
   lo |-> (a.lo \div Pow2(k)) + (a.hi % Pow2(k)) * Pow2(16 - k)]

\* (a + b) | 0, as a bit pattern.
WAdd(a, b) ==
  [hi |-> (a.hi + b.hi + ((a.lo + b.lo) \div Half)) % Half,
   lo |-> (a.lo + b.lo) % Half]

\* The full product of two 16-bit halves, as a word.
Mul16(x, y) ==
  LET p == (x \div 256) * y
      q == (x % 256) * y
      s == ((p % 256) * 256) + (q % Half)
  IN [hi |-> (p \div 256) + (q \div Half) + (s \div Half), lo |-> s % Half]

\* Math.imul
Imul(a, b) ==
  LET ll == Mul16(a.lo, b.lo)
      cross == (Mul16(a.hi, b.lo).lo + Mul16(a.lo, b.hi).lo) % Half
  IN [hi |-> (ll.hi + cross) % Half, lo |-> ll.lo]

Word(n) == [hi |-> 0, lo |-> n]

\* seed >>> 0, for an integer seed with |seed| < 65536.
SeedWord(seed) ==
  IF seed >= 0 THEN [hi |-> 0, lo |-> seed] ELSE [hi |-> Half - 1, lo |-> Half + seed]

\* One call of the closure mulberry32 returns: the new state a and the word
\* whose quotient by UINT32_MAX is the float returned.
mulberry32(a) ==
  LET a1 == WAdd(a, [hi |-> 27947, lo |-> 31221])   \* 0x6d2b79f5
      t1 == Imul(WXor(a1, WShr(a1, 15)), WOr(Word(1), a1))
      t2 == WXor(WAdd(t1, Imul(WXor(t1, WShr(t1, 7)), WOr(Word(61), t1))), t1)
  IN [a |-> a1, out |-> WXor(t2, WShr(t2, 14))]

makeRng(seed) == [a |-> SeedWord(seed)]

\* n * 2^32 - n for n >= 1, and u * total, as five digits <<q, d3, d2, d1, d0>>
\* (q the part above 32 bits, d3..d0 bytes), for total and n below 2^22.
TimesUintMax(n) ==
  LET m == n - 1
  IN <<m, 255, 255 - ((m \div Half) % 256), 255 - ((m \div 256) % 256), 255 - (m % 256)>>

WordTimes(u, total) ==
  LET s0 == (u.lo % 256) * total
      s1 == ((u.lo \div 256) * total) + (s0 \div 256)
      s2 == ((u.hi % 256) * total) + (s1 \div 256)
      s3 == ((u.hi \div 256) * total) + (s2 \div 256)
  IN <<s3 \div 256, s3 % 256, s2 % 256, s1 % 256, s0 % 256>>

RECURSIVE LexLess(_, _)
LexLess(x, y) ==
  IF x = <<>> THEN FALSE
  ELSE IF Head(x) # Head(y) THEN Head(x) < Head(y)
  ELSE LexLess(Tail(x), Tail(y))

\* threshold < cumulative, where threshold = (u / UINT32_MAX) * total.
ThresholdBelow(u, total, cumulative) ==
  cumulative > 0 /\ LexLess(WordTimes(u, total), TimesUintMax(cumulative))

\* Weights are JavaScript numbers: an integer stands for itself, and three
\* values outside the integers in use stand for Infinity, -Infinity (its
\* negation) and NaN.
Infinity == Pow2(30)

NaN == 0 - (Pow2(30) + 1)

\* Number.isFinite
IsFinite(w) == w # NaN /\ w # Infinity /\ w # 0 - Infinity

\* sum + w, for a sum and a weight that are not -Infinity.
JsPlus(a, b) ==
  IF a = NaN \/ b = NaN THEN NaN
  ELSE IF a = Infinity \/ b = Infinity THEN Infinity
  ELSE a + b

RECURSIVE SumSeq(_)
SumSeq(s) == IF s = <<>> THEN 0 ELSE JsPlus(Head(s), SumSeq(Tail(s)))

\* choiceWeighted throws unless ChoiceDefined.
ChoiceDefined(items, weights) ==
  /\ Len(items) > 0
  /\ Len(items) = Len(weights)
  /\ \A i \in 1..Len(weights) : weights[i] >= 0 /\ IsFinite(weights[i])
  /\ SumSeq(weights) # 0

RECURSIVE ChoiceLoop(_, _, _, _, _)
ChoiceLoop(weights, u, total, cumulative, i) ==
  IF i > Len(weights) THEN Len(weights)
  ELSE IF ThresholdBelow(u, total, cumulative + weights[i]) THEN i
  ELSE ChoiceLoop(weights, u, total, cumulative + weights[i], i + 1)

\* The index of the item choiceWeighted returns when generator() returns u.
choiceWeighted(items, weights, u) == ChoiceLoop(weights, u, SumSeq(weights), 0, 1)

(***************************************************************************)
(* policies.ts.  Weights are carried in units of 1/2000: a multiplier is   *)
(* in tenths (1.0 when absent), the penalty factor in twentieths.          *)
(***************************************************************************)
\* The multiplier Number.MAX_VALUE, the largest finite number: a length
\* weight may be it, for a length of 3 or more (baseWeight >= 2), where
\* baseWeight * Number.MAX_VALUE is Infinity.
MAX_VALUE == Pow2(28)

createPolicyManager(config) == [config |-> config, lastTipo |-> <<>>]

\* Mutant of ClampedPenalty: the penalty is used as given.
ClampedPenaltyAsGiven(config) ==
  IF config.repeatTipoPenalty = <<>> THEN 0 ELSE config.repeatTipoPenalty[1]

\* clamp(repeatTipoPenalty ?? 0, 0, 0.95), in twentieths.
ClampedPenalty(config) ==
  LET given == IF config.repeatTipoPenalty = <<>> THEN 0 ELSE config.repeatTipoPenalty[1]
  IN Min2(Max2(given, 0), 19)

evaluateFormulaWeight(policy, tipo, descriptor, baseWeight) ==
  LET length == Len(descriptor.pattern)
      byLength == IF <<tipo, length>> \in DOMAIN policy.config.lengthWeights
                    THEN policy.config.lengthWeights[<<tipo, length>>] ELSE 10
      byGroup == IF <<tipo, descriptor.group>> \in DOMAIN policy.config.groupWeights
                   THEN policy.config.groupWeights[<<tipo, descriptor.group>>] ELSE 10
      penalty == ClampedPenalty(policy.config)
      factor == IF penalty > 0 /\ policy.lastTipo = <<tipo>> THEN 20 - penalty ELSE 20
  IN IF byLength # MAX_VALUE THEN baseWeight * byLength * byGroup * factor
     ELSE CASE baseWeight >= 2 /\ byGroup > 0 -> Infinity
            [] baseWeight >= 2 /\ byGroup = 0 -> NaN
            [] baseWeight >= 2 /\ byGroup < 0 -> 0 - Infinity

registerSelectedTipo(policy, tipo) == [policy EXCEPT !.lastTipo = <<tipo>>]

getLandingPreferences(policy, windowLength) ==
  IF windowLength \in DOMAIN policy.config.landingOrder
    THEN policy.config.landingOrder[windowLength] ELSE <<>>

(***************************************************************************)
(* scheduler.ts                                                            *)
(***************************************************************************)
flattenFormulas(collection) ==
  LET RECURSIVE Flatten(_)
      Flatten(groups) ==
        IF groups = <<>> THEN <<>>
        ELSE [i \in 1..Len(Head(groups).formulas) |->
                [pattern |-> Head(groups).formulas[i], group |-> Head(groups).group]]
             \o Flatten(Tail(groups))
  IN Flatten(collection)

\* Math.max(1, candidate.pattern.length - 1)
BaseWeight(candidate) == Max2(1, Len(candidate.pattern) - 1)

\* weights.map(value => Math.max(0, value))
SanitizeWeights(weights) ==
  [i \in 1..Len(weights) |-> IF weights[i] = NaN THEN NaN ELSE Max2(0, weights[i])]

\* total > 0 ? sanitizedWeights : formulas.map(() => 1)
ResolveWeights(sanitized) ==
  IF SumSeq(sanitized) # NaN /\ SumSeq(sanitized) > 0 THEN sanitized
  ELSE [i \in 1..Len(sanitized) |-> 1]

\* selectFormula: [ok, formula, policy]; ok = FALSE when it throws.  u is the
\* word the one call of generator() inside choiceWeighted returns.
selectFormula(profile, target, u, policy) ==
  LET failed == [ok |-> FALSE, formula |-> <<>>, policy |-> policy]
  IN IF target.degree \notin DOMAIN profile THEN failed
     ELSE LET tipo == profile[target.degree]
          IN IF tipo # 1 /\ tipo # 2 THEN failed
             ELSE LET formulas == flattenFormulas(getFormulas(tipo))
                      weights == [i \in 1..Len(formulas) |->
                                    evaluateFormulaWeight(policy, tipo, formulas[i],
                                                          BaseWeight(formulas[i]))]
                      resolved == ResolveWeights(SanitizeWeights(weights))
                  IN IF Len(formulas) = 0 \/ ~ChoiceDefined(formulas, resolved) THEN failed
                     ELSE [ok |-> TRUE,
                           formula |-> formulas[choiceWeighted(formulas, resolved, u)].pattern,
                           policy |-> registerSelectedTipo(policy, tipo)]

\* previousWindow ? previousWindow.startEighth : 0
LowerBound(previousWindow) ==
  IF previousWindow # <<>> THEN previousWindow[1].startEighth ELSE 0

Earliest(placement) ==
  IF placement.isolated # <<>> THEN placement.isolated[1] ELSE placement.approachStart

\* Mutant of DropLeading: the last element is dropped, not the first.
DropTrailing(current) == SubSeq(current, 1, Len(current) - 1)

\* current.slice(1)
DropLeading(current) == Tail(current)

RECURSIVE FitLoop(_, _, _, _)
FitLoop(window, current, lowerBound, landingPreference) ==
  LET placement == computeRhythmPlacement(window, Len(current), landingPreference)
  IN IF Len(current) > 1 /\ Earliest(placement) < lowerBound
       THEN FitLoop(window, Tail(current), lowerBound, landingPreference)
       ELSE [formula |-> current, placement |-> placement]

\* Mutant of fitFormula: the formula is placed as selected, never shortened.
fitFormulaNoShrink(window, formula, previousWindow, landingPreference) ==
  [formula |-> formula,
   placement |-> computeRhythmPlacement(window, Len(formula), landingPreference)]

fitFormula(window, formula, previousWindow, landingPreference) ==
  FitLoop(window, formula, LowerBound(previousWindow), landingPreference)

\* Mutant of realiseApproachMidis: the sum is not wrapped into the register.
realiseApproachMidisNoWrap(targetMidi, formula) ==
  [i \in 1..(Len(formula) - 1) |-> targetMidi + formula[i]]

realiseApproachMidis(targetMidi, formula) ==
  [i \in 1..(Len(formula) - 1) |->
     wrapMidiToRange(targetMidi + formula[i], MIN_MIDI, MAX_MIDI)]

\* The isolated time after the check of lines 119-122.
IsolatedTime(placement, previousWindow) ==
  IF placement.isolated # <<>> /\ placement.isolated[1] < 0 /\ previousWindow = <<>>
    THEN <<>> ELSE placement.isolated

\* Mutant of ApproachSkipped: every approach before the window's start is skipped.
ApproachSkippedBeforeWindow(time, window, previousWindow) ==
  /\ previousWindow # <<>>
  /\ time < window.startEighth

\* The test of line 136: the approach at this time is skipped.
ApproachSkipped(time, window, previousWindow) ==
  /\ previousWindow # <<>>
  /\ time < window.startEighth
  /\ time < previousWindow[1].startEighth

IsolatedNote(t, target, window) ==
  [t |-> t, dur |-> 1,
   midi |-> wrapMidiToRange(target.midi, MIN_MIDI, MAX_MIDI),
   pitch |-> midiToPitch(wrapMidiToRange(target.midi, MIN_MIDI, MAX_MIDI)),
   src |-> "isolated", chord |-> <<window.chordSymbol>>, degree |-> <<>>]

ApproachNote(t, midi, window) ==
  [t |-> t, dur |-> 1, midi |-> midi, pitch |-> midiToPitch(midi),
   src |-> "approach", chord |-> <<window.chordSymbol>>, degree |-> <<>>]

TargetNote(t, target, window) ==
  [t |-> t, dur |-> 1,
   midi |-> wrapMidiToRange(target.midi, MIN_MIDI, MAX_MIDI),
   pitch |-> target.pitch,
   src |-> "target", chord |-> <<window.chordSymbol>>, degree |-> <<target.degree>>]

\* The notes scheduleForWindow pushes once the formula is fitted, in push order.
WindowNotes(window, target, fitted, previousWindow) ==
  LET placement == fitted.placement
      approachMidis == realiseApproachMidis(target.midi, fitted.formula)
      isolatedTime == IsolatedTime(placement, previousWindow)
      isolatedPart == IF isolatedTime # <<>>
                        THEN <<IsolatedNote(isolatedTime[1], target, window)>> ELSE <<>>
      allApproaches == [i \in 1..Len(approachMidis) |->
                          ApproachNote(placement.approachStart + (i - 1),
                                       approachMidis[i], window)]
      approachPart == SelectSeq(allApproaches,
                                LAMBDA n : ~ApproachSkipped(n.t, window, previousWindow))
  IN isolatedPart \o approachPart \o <<TargetNote(placement.landing, target, window)>>

\* Mutant of scheduleForWindow: an error of selectFormula is caught, the window
\* is left without notes and the run goes on.
scheduleForWindowCatching(notes, window, profile, target, u, previousWindow, policy) ==
  LET selected == selectFormula(profile, target, u, policy)
  IN IF ~selected.ok
       THEN [ok |-> TRUE, notes |-> notes, policy |-> policy, pushed |-> <<>>]
       ELSE LET landingPreference == getLandingPreferences(policy, window.lengthEighths)
                fitted == fitFormula(window, selected.formula, previousWindow,
                                     landingPreference)
                pushed == WindowNotes(window, target, fitted, previousWindow)
            IN [ok |-> TRUE, notes |-> notes \o pushed, policy |-> selected.policy,
                pushed |-> pushed]

\* scheduleForWindow: [ok, notes, policy, pushed]; pushed are the notes added.
scheduleForWindow(notes, window, profile, target, u, previousWindow, policy) ==
  LET selected == selectFormula(profile, target, u, policy)
  IN IF ~selected.ok
       THEN [ok |-> FALSE, notes |-> notes, policy |-> policy, pushed |-> <<>>]
       ELSE LET landingPreference == getLandingPreferences(policy, window.lengthEighths)
                fitted == fitFormula(window, selected.formula, previousWindow,
                                     landingPreference)
                pushed == WindowNotes(window, target, fitted, previousWindow)
            IN [ok |-> TRUE, notes |-> notes \o pushed, policy |-> selected.policy,
                pushed |-> pushed]

\* Mutant of InsertByT: notes of equal t are ordered by midi.
RECURSIVE InsertByTThenMidi(_, _)
InsertByTThenMidi(sorted, note) ==
  IF sorted = <<>> THEN <<note>>
  ELSE IF \/ sorted[Len(sorted)].t < note.t
          \/ (sorted[Len(sorted)].t = note.t /\ sorted[Len(sorted)].midi <= note.midi)
    THEN Append(sorted, note)
  ELSE Append(InsertByTThenMidi(SubSeq(sorted, 1, Len(sorted) - 1), note),
              sorted[Len(sorted)])

\* notes.sort((a, b) => a.t - b.t): a stable sort.
RECURSIVE InsertByT(_, _)
InsertByT(sorted, note) ==
  IF sorted = <<>> THEN <<note>>
  ELSE IF sorted[Len(sorted)].t <= note.t THEN Append(sorted, note)
  ELSE Append(InsertByT(SubSeq(sorted, 1, Len(sorted) - 1), note), sorted[Len(sorted)])

RECURSIVE SortByT(_)
SortByT(notes) ==
  IF notes = <<>> THEN <<>>
  ELSE InsertByT(SortByT(SubSeq(notes, 1, Len(notes) - 1)), notes[Len(notes)])

\* Mutant of LatestNote: the comparison is reversed, the earliest target wins.
RECURSIVE LatestNoteReversed(_, _)
LatestNoteReversed(targetNotes, latest) ==
  IF targetNotes = <<>> THEN latest
  ELSE LatestNoteReversed(Tail(targetNotes),
                          IF Head(targetNotes).t < latest.t THEN Head(targetNotes)
                          ELSE latest)

\* targetNotes.reduce(...): the first target with the greatest t.
RECURSIVE LatestNote(_, _)
LatestNote(targetNotes, latest) ==
  IF targetNotes = <<>> THEN latest
  ELSE LatestNote(Tail(targetNotes),
                  IF Head(targetNotes).t > latest.t THEN Head(targetNotes) ELSE latest)

\* Mutant of ClosureMidi: the override of the interval test is always taken.
ClosureMidiOverridden(lastTarget) ==
  wrapMidiToRange(lastTarget.midi - 5, MIN_MIDI, MAX_MIDI)

\* Mutant of ClosureMidi: two semitones below, without the register checks.
ClosureMidiNoFloor(lastTarget) == lastTarget.midi - 2

ClosureMidi(lastTarget) ==
  LET first == lastTarget.midi - 2
      second == IF first < MIN_MIDI
                  THEN (IF lastTarget.midi + 2 <= MAX_MIDI
                          THEN lastTarget.midi + 2 ELSE MIN_MIDI)
                  ELSE first
      interval == Abs(second - lastTarget.midi)
  IN IF interval > 11 THEN wrapMidiToRange(lastTarget.midi - 5, MIN_MIDI, MAX_MIDI)
     ELSE second

\* Mutant of addClosure: a closure note after every target, not only the last.
addClosureEveryTarget(notes) ==
  LET targetNotes == SelectSeq(notes, LAMBDA n : n.src = "target")
  IN notes \o [i \in 1..Len(targetNotes) |->
                [t |-> targetNotes[i].t + 1, dur |-> 1,
                 midi |-> ClosureMidi(targetNotes[i]),
                 pitch |-> midiToPitch(ClosureMidi(targetNotes[i])), src |-> "closure",
                 chord |-> <<>>, degree |-> <<>>]]

addClosure(notes) ==
  LET targetNotes == SelectSeq(notes, LAMBDA n : n.src = "target")
  IN IF Len(targetNotes) = 0 THEN notes
     ELSE LET lastTarget == LatestNote(targetNotes, targetNotes[1])
              closureMidi == ClosureMidi(lastTarget)
          IN Append(notes, [t |-> lastTarget.t + 1, dur |-> 1, midi |-> closureMidi,
                            pitch |-> midiToPitch(closureMidi), src |-> "closure",
                            chord |-> <<>>, degree |-> <<>>])

(***************************************************************************)
(* One call of scheduleProgression as a process.  A run is                 *)
(*   pc       "start" (called), "loop" (inside windows.forEach),           *)
(*            "done" (returned), "error" (threw)                           *)
(*   windows  the parsed windows;  index  the windows processed so far     *)
(*   notes    the local array;  contour, policy  the context's objects     *)
(*   returned <<list>> once returned                                       *)
(*   log      history: per processed window, the notes pushed for it       *)
(***************************************************************************)
NewRun(slider, config) ==
  [pc |-> "start", windows |-> <<>>, index |-> 0, notes |-> <<>>,
   contour |-> createContourGenerator(slider),
   policy |-> createPolicyManager(config),
   returned |-> <<>>, log |-> <<>>]

\* Lines 185-191: parse, the early return, the local array.
BeginRun(run, prog) ==
  LET parsed == parseProgression(prog)
  IN IF ~parsed.ok THEN [run EXCEPT !.pc = "error"]
     ELSE IF Len(parsed.windows) = 0
       THEN [run EXCEPT !.pc = "done", !.returned = << <<>> >>]
     ELSE [run EXCEPT !.pc = "loop", !.windows = parsed.windows]

\* Lines 192-197: one iteration of windows.forEach, generator() returning u.
WindowStep(run, u) ==
  LET window == run.windows[run.index + 1]
      previousWindow == IF run.index > 0 THEN <<run.windows[run.index]>> ELSE <<>>
      thrown == [run EXCEPT !.pc = "error"]
  IN IF ~QualityKnown(window.chordSymbol) THEN thrown
     ELSE LET profile == getChordProfile(window.chordSymbol)
              picked == nextTarget(run.contour, window.chordSymbol, profile)
          IN IF ~picked.ok THEN thrown
             ELSE LET done == scheduleForWindow(run.notes, window, profile,
                                                picked.target[1], u, previousWindow,
                                                run.policy)
                  IN IF ~done.ok THEN [thrown EXCEPT !.contour = picked.gen]
                     ELSE [run EXCEPT !.index = @ + 1, !.notes = done.notes,
                                      !.contour = picked.gen, !.policy = done.policy,
                                      !.log = Append(@, done.pushed)]

\* TRUE iff the iteration reaches choiceWeighted, i.e. consumes one generator() call.
WindowDraws(run) ==
  LET window == run.windows[run.index + 1]
  IN /\ QualityKnown(window.chordSymbol)
     /\ LET profile == getChordProfile(window.chordSymbol)
            picked == nextTarget(run.contour, window.chordSymbol, profile)
        IN picked.ok /\ profile[picked.target[1].degree] \in {1, 2}

\* Lines 198-200: sort, addClosure, sort, return.
FinishRun(run) ==
  LET final == SortByT(addClosure(SortByT(run.notes)))
  IN [run EXCEPT !.pc = "done", !.notes = final, !.returned = <<final>>]

(***************************************************************************)
(* api.ts.  A seed is a JavaScript number; the integral ones from 0 up to  *)
(* 2^54 are kept as [hi, lo] with value hi * 2^27 + lo, so that additions  *)
(* round as doubles do from 2^53 on.                                       *)
(***************************************************************************)
Limb == Pow2(27)

NumOf(n) == [hi |-> n \div Limb, lo |-> n % Limb]

\* The exact sum of a number and a small natural.
NumPlus(x, i) == [hi |-> x.hi + ((x.lo + i) \div Limb), lo |-> (x.lo + i) % Limb]

\* x + i in double arithmetic: exact below 2^53; from 2^53 to 2^54 the
\* doubles are the even integers and a tie goes to the even mantissa.
DoubleAdd(x, i) ==
  LET exact == NumPlus(x, i)
  IN IF exact.hi < Pow2(26) \/ exact.lo % 2 = 0 THEN exact
     ELSE IF (exact.lo - 1) % 4 = 0 THEN [exact EXCEPT !.lo = @ - 1]
     ELSE NumPlus(exact, 1)

\* seed >>> 0: the number modulo 2^32, as a word.
ToUint32(x) ==
  [hi |-> ((x.lo \div Half) + (x.hi % 32) * 2048) % Half, lo |-> x.lo % Half]

\* normalizeSeed: Math.floor(Date.now() % 0xffffffff) for an undefined seed
\* (now is that value), Math.trunc of the seed otherwise (seeds are integral).
normalizeSeed(rawSeed, now) == IF rawSeed = <<>> THEN now ELSE rawSeed[1]

\* createContext: a generator from the seed, a contour generator from the
\* request's slider, a policy manager from the options.
createContext(request, seedNumber, options) ==
  [rng |-> [a |-> ToUint32(seedNumber)],
   run |-> NewRun(request.contour_slider, options.policyConfig)]

\* windows.forEach of scheduleProgression, each generator() call drawn from
\* the context's generator g, then the sorts and the closure.
RECURSIVE RunWindows(_, _)
RunWindows(r, g) ==
  IF r.pc # "loop" THEN r
  ELSE IF r.index = Len(r.windows) THEN FinishRun(r)
  ELSE LET drawn == mulberry32(g.a)
       IN CHOOSE ended \in
            {RunWindows(next, after) :
               next \in {WindowStep(r, drawn.out)},
               after \in {IF WindowDraws(r) THEN [a |-> drawn.a] ELSE g}} : TRUE

\* scheduleRequest: scheduleProgression with the context's contour.
scheduleRequest(request, context) ==
  RunWindows(BeginRun(context.run, request.progression), context.rng)

\* assertKnownChords: parse, then a profile for every window, else it throws.
assertKnownChords(prog) ==
  /\ parseProgression(prog).ok
  /\ \A j \in 1..Len(parseProgression(prog).windows) :
       QualityKnown(parseProgression(prog).windows[j].chordSymbol)

\* generateFromRequest (generateInternals): [ok, notes, seed]; ok = FALSE
\* when it throws.  The artifacts are functions of the notes and the seed.
generateFromRequest(request, options, now) ==
  LET failed == [ok |-> FALSE, notes |-> <<>>, seed |-> <<>>]
  IN IF request.progression = <<>> \/ ~assertKnownChords(request.progression)
       THEN failed
     ELSE LET seedNumber == normalizeSeed(request.seed, now)
          IN CHOOSE response \in
               {IF ended.pc # "done" THEN failed
                ELSE [ok |-> TRUE, notes |-> ended.returned[1], seed |-> <<seedNumber>>] :
                  ended \in {scheduleRequest(request,
                                             createContext(request, seedNumber, options))}} :
               TRUE

\* normalizeVariantCount: 2 when undefined; <<>> when it throws.
normalizeVariantCount(count) ==
  IF count = <<>> THEN <<2>> ELSE IF count[1] <= 0 THEN <<>> ELSE count

\* sanitizeSeeds: [ok, seeds]; seeds = <<>> is null; a length other than
\* count throws.
sanitizeSeeds(seeds, count) ==
  IF seeds = <<>> THEN [ok |-> TRUE, seeds |-> <<>>]
  ELSE IF Len(seeds[1]) # count THEN [ok |-> FALSE, seeds |-> <<>>]
  ELSE [ok |-> TRUE, seeds |-> seeds]

\* Array.from({ length: count }, (_, index) => baseSeed + index)
DefaultSeeds(baseSeed, count) == [i \in 1..count |-> DoubleAdd(baseSeed, i - 1)]

(***************************************************************************)
(* Inputs                                                                  *)
(***************************************************************************)
Chord(letter, acc, quality) == [letter |-> letter, acc |-> acc, quality |-> quality]

\* The bars a progression is made of: one chord, two chords, a chord whose
\* profile has a target of unsupported type, an unknown chord, three chords.
Bars ==
  { <<Chord("C", "", "DELTA")>>,
    <<Chord("D", "", "m9"), Chord("G", "", "13")>>,
    <<Chord("F", "", "sus")>>,
    <<Chord("H", "", "dim7")>>,
    <<Chord("D", "", "m9"), Chord("G", "", "13"), Chord("C", "", "DELTA")>> }

RECURSIVE SeqsUpTo(_, _)
SeqsUpTo(set, n) ==
  IF n = 0 THEN {<<>>}
  ELSE LET shorter == SeqsUpTo(set, n - 1)
       IN shorter \cup {Append(s, x) : s \in {t \in shorter : Len(t) = n - 1}, x \in set}

Progressions == SeqsUpTo(Bars, MaxBars)

\* contour_slider in tenths; <<>> is "not given".
Sliders == {<<>>, <<0>>, <<10>>}

NoWeights == [x \in {} |-> 0]

PolicyConfigs ==
  { [lengthWeights |-> NoWeights, groupWeights |-> NoWeights,
     repeatTipoPenalty |-> <<>>, landingOrder |-> NoWeights],
    [lengthWeights |-> NoWeights, groupWeights |-> NoWeights,
     repeatTipoPenalty |-> <<>>,
     landingOrder |-> (4 :> <<3, 1>>) @@ (8 :> <<7, 5, 3, 1>>)],
    [lengthWeights |-> (<<1, 3>> :> 5) @@ (<<1, 5>> :> 40) @@ (<<2, 4>> :> 0),
     groupWeights |-> (<<1, "triples">> :> 6) @@ (<<2, "octuples">> :> -10),
     repeatTipoPenalty |-> <<8>>,
     landingOrder |-> (4 :> <<5, 2, 3, 3>>) @@ (8 :> <<9, 0, 5, 5, 1>>)] }

\* The words generator() may return: 0, the eighths of the range, 0xffffffff.
DrawWords ==
  {[hi |-> h * 8192, lo |-> 0] : h \in 0..7} \cup {[hi |-> Half - 1, lo |-> Half - 1]}

Seeds == {0, 42, -1}

(***************************************************************************)
(* State                                                                   *)
(***************************************************************************)
VARIABLES
  progression,  \* the progression text, as bars of chord tokens
  slider,       \* contour_slider
  config,       \* the PolicyConfig
  run,          \* the call of scheduleProgression (any generator() outcomes)
  seed,         \* the seed of the two seeded runs
  runs,         \* the two seeded calls of scheduleProgression, <<>> before built
  rng,          \* their generators' states, <<>> before built
  gen,          \* a contour generator used on its own
  genCount,     \* nextTarget calls made on gen
  genLast,      \* the target the last call returned, <<>> if none or it threw
  genLow,       \* least and greatest midi returned so far, <<>> if none
  genHigh,
  genCall,      \* the last call's arguments and the state it found, <<>> if unrecorded
  fit,          \* a call of fitFormula: its arguments, its locals, its position
  variants,     \* a call of generateVariantsFromRequest: payload, locals, position
  sel           \* a policy manager and the last selectFormula call made with it

vars == <<progression, slider, config, run, seed, runs, rng,
          gen, genCount, genLast, genLow, genHigh, genCall, fit, variants, sel>>

schedVars == <<run>>
detVars == <<seed, runs, rng>>
genVars == <<gen, genCount, genLast, genLow, genHigh, genCall>>
inputVars == <<progression, slider, config>>
fitVars == <<fit>>
apiVars == <<variants>>
selVars == <<sel>>

RunIds == {1, 2}

IdleDet == /\ seed = 0
           /\ runs = [r \in RunIds |-> <<>>]
           /\ rng = [r \in RunIds |-> <<>>]

IdleFit == fit = [pc |-> "idle"]

IdleApi == variants = [pc |-> "idle"]

IdleSel == sel = <<>>

IdleGen == /\ gen = createContourGenerator(slider)
           /\ genCount = 0
           /\ genLast = <<>>
           /\ genLow = <<>>
           /\ genHigh = <<>>
           /\ genCall = <<>>

(***************************************************************************)
(* Spec: scheduleProgression under every outcome of the generator          *)
(***************************************************************************)
Init ==
  /\ progression \in Progressions
  /\ slider \in Sliders
  /\ config \in PolicyConfigs
  /\ run = NewRun(slider, config)
  /\ IdleDet
  /\ IdleGen
  /\ IdleFit
  /\ IdleApi
  /\ IdleSel

Begin ==
  /\ run.pc = "start"
  /\ run' = BeginRun(run, progression)
  /\ UNCHANGED <<selVars, apiVars, fitVars, inputVars, detVars, genVars>>

Window ==
  /\ run.pc = "loop"
  /\ run.index < Len(run.windows)
  /\ \E u \in DrawWords : run' = WindowStep(run, u)
  /\ UNCHANGED <<selVars, apiVars, fitVars, inputVars, detVars, genVars>>

Finish ==
  /\ run.pc = "loop"
  /\ run.index = Len(run.windows)
  /\ run' = FinishRun(run)
  /\ UNCHANGED <<selVars, apiVars, fitVars, inputVars, detVars, genVars>>

Next == Begin \/ Window \/ Finish

Spec == Init /\ [][Next]_vars

(***************************************************************************)
(* SpecDet: two calls of scheduleProgression on the same progression, each *)
(* with its own context built from the same seed, slider and config.  The  *)
(* calls are synchronous: one does not start while the other is running.   *)
(***************************************************************************)
InitDet ==
  /\ progression \in Progressions
  /\ slider \in Sliders
  /\ config \in PolicyConfigs
  /\ seed \in Seeds
  /\ runs = [r \in RunIds |-> <<>>]
  /\ rng = [r \in RunIds |-> <<>>]
  /\ run = NewRun(slider, config)
  /\ IdleGen
  /\ IdleFit
  /\ IdleApi
  /\ IdleSel

\* Mutant of Build: the generator is seeded from the call, not from the seed.
BuildUnseeded(r) ==
  /\ runs[r] = <<>>
  /\ rng' = [rng EXCEPT ![r] = <<makeRng(r)>>]
  /\ runs' = [runs EXCEPT ![r] = <<NewRun(slider, config)>>]
  /\ UNCHANGED <<selVars, apiVars, fitVars, inputVars, seed, schedVars, genVars>>

\* buildContext: makeRng(seed), createContourGenerator({slider}), createPolicyManager(config).
Build(r) ==
  /\ runs[r] = <<>>
  /\ rng' = [rng EXCEPT ![r] = <<makeRng(seed)>>]
  /\ runs' = [runs EXCEPT ![r] = <<NewRun(slider, config)>>]
  /\ UNCHANGED <<selVars, apiVars, fitVars, inputVars, seed, schedVars, genVars>>

Running(r) == runs[r] # <<>> /\ runs[r][1].pc = "loop"

DetBegin(r) ==
  /\ runs[r] # <<>>
  /\ runs[r][1].pc = "start"
  /\ \A q \in RunIds \ {r} : ~Running(q)
  /\ runs' = [runs EXCEPT ![r] = <<BeginRun(runs[r][1], progression)>>]
  /\ UNCHANGED <<selVars, apiVars, fitVars, inputVars, seed, rng, schedVars, genVars>>

DetWindow(r) ==
  /\ Running(r)
  /\ runs[r][1].index < Len(runs[r][1].windows)
  /\ LET drawn == mulberry32(rng[r][1].a)
     IN /\ runs' = [runs EXCEPT ![r] = <<WindowStep(runs[r][1], drawn.out)>>]
        /\ rng' = IF WindowDraws(runs[r][1])
                    THEN [rng EXCEPT ![r] = <<[a |-> drawn.a]>>] ELSE rng
  /\ UNCHANGED <<selVars, apiVars, fitVars, inputVars, seed, schedVars, genVars>>

DetFinish(r) ==
  /\ Running(r)
  /\ runs[r][1].index = Len(runs[r][1].windows)
  /\ runs' = [runs EXCEPT ![r] = <<FinishRun(runs[r][1])>>]
  /\ UNCHANGED <<selVars, apiVars, fitVars, inputVars, seed, rng, schedVars, genVars>>

NextDet == \E r \in RunIds : Build(r) \/ DetBegin(r) \/ DetWindow(r) \/ DetFinish(r)

SpecDet == InitDet /\ [][NextDet]_vars

(***************************************************************************)
(* SpecContour: one contour generator, called with any chords              *)
(***************************************************************************)
ContourSliders == {<<>>} \cup {<<i>> : i \in 0..10}

ContourChords ==
  {Chord(r[1], r[2], q) : r \in {<<"C", "">>, <<"D", "">>, <<"E", "b">>, <<"F", "#">>,
                                 <<"G", "">>, <<"B", "b">>},
                         q \in {"DELTA", "m9", "13", "sus"}}

InitContour ==
  /\ progression = <<>>
  /\ slider \in ContourSliders
  /\ config \in {c \in PolicyConfigs : c.landingOrder = NoWeights}
  /\ run = NewRun(slider, config)
  /\ IdleDet
  /\ IdleGen
  /\ IdleFit
  /\ IdleApi
  /\ IdleSel

\* A call made with chord: what nextTarget returns, evaluated once.
ContourCall(chord) ==
  LET symbol == normalizeToken(chord)
  IN {nextTarget(gen, symbol, getChordProfile(symbol))}

NextTargetReturns ==
  /\ genCount < MaxCalls
  /\ \E chord \in ContourChords : \E picked \in ContourCall(chord) :
       /\ picked.ok
       /\ gen' = picked.gen
       /\ genLast' = picked.target
       /\ genLow' = IF genLow = <<>> THEN <<picked.target[1].midi>>
                    ELSE <<Min2(genLow[1], picked.target[1].midi)>>
       /\ genHigh' = IF genHigh = <<>> THEN <<picked.target[1].midi>>
                     ELSE <<Max2(genHigh[1], picked.target[1].midi)>>
  /\ genCount' = genCount + 1
  /\ UNCHANGED <<selVars, genCall, apiVars, fitVars, inputVars, schedVars, detVars>>

NextTargetThrows ==
  /\ genCount < MaxCalls
  /\ \E chord \in ContourChords : \E picked \in ContourCall(chord) : ~picked.ok
  /\ genCount' = genCount + 1
  /\ genLast' = <<>>
  /\ UNCHANGED <<selVars, genCall, apiVars, fitVars, gen, genLow, genHigh, inputVars, schedVars, detVars>>

NextContour == NextTargetReturns \/ NextTargetThrows

SpecContour == InitContour /\ [][NextContour]_vars

(***************************************************************************)
(* SpecRepeat: one contour generator, of any slider and with or without a  *)
(* startMidi, called repeatedly on a C-rooted chord whose profile has the  *)
(* degree 1 (collectMidis(contour, "Cmaj7", 16) of the contour tests).     *)
(***************************************************************************)
RepeatChords ==
  {c \in ContourChords : /\ c.letter = "C" /\ c.acc = ""
                         /\ "1" \in DOMAIN getChordProfile(normalizeToken(c))}

StartMidis == {<<>>} \cup {<<m>> : m \in DEFAULT_MIN_MIDI..DEFAULT_MAX_MIDI}

InitRepeat ==
  /\ progression = <<>>
  /\ slider \in ContourSliders
  /\ config \in {c \in PolicyConfigs : c.landingOrder = NoWeights}
  /\ run = NewRun(slider, config)
  /\ IdleDet
  /\ \E start \in StartMidis : gen = createContourGeneratorFrom(slider, start)
  /\ genCount = 0
  /\ genLast = <<>>
  /\ genLow = <<>>
  /\ genHigh = <<>>
  /\ genCall = <<>>
  /\ IdleFit
  /\ IdleApi
  /\ IdleSel

RepeatCall ==
  /\ genCount < MaxRepeats
  /\ \E chord \in RepeatChords : \E picked \in ContourCall(chord) :
       /\ picked.ok
       /\ gen' = picked.gen
       /\ genLast' = picked.target
       /\ genLow' = IF genLow = <<>> THEN <<picked.target[1].midi>>
                    ELSE <<Min2(genLow[1], picked.target[1].midi)>>
       /\ genHigh' = IF genHigh = <<>> THEN <<picked.target[1].midi>>
                     ELSE <<Max2(genHigh[1], picked.target[1].midi)>>
  /\ genCount' = genCount + 1
  /\ UNCHANGED <<selVars, genCall, apiVars, fitVars, inputVars, schedVars, detVars>>

NextRepeat == RepeatCall

SpecRepeat == InitRepeat /\ [][NextRepeat]_vars

(***************************************************************************)
(* SpecTarget: a contour generator called with any chord symbol and any    *)
(* profile (nextTarget takes the profile as an argument).  genCall keeps   *)
(* the arguments of the last call and the generator state it found.        *)
(***************************************************************************)
TargetSliders == {<<>>, <<0>>, <<10>>}

TargetSymbols ==
  {normalizeToken(Chord(r[1], r[2], "DELTA")) :
     r \in {<<"C", "">>, <<"D", "">>, <<"F", "">>, <<"A", "b">>, <<"B", "b">>}}

TargetDegrees == {"3", "5", "1", "7M", "_b7", "_b3", "_b_b7", "9", "13"}

\* ChordProfile.targets: profiles of one degree, of the degree 3 or 5 with
\* another, and three of four degrees.
TargetProfiles ==
  {[d \in D |-> 1] :
     D \in {{"3"}, {"5"}, {"9"}} \cup
           {{"3", d} : d \in TargetDegrees \ {"3"}} \cup
           {{"5", d} : d \in {"1", "9", "_b_b7"}} \cup
           {{"1", "3", "5", "7M"}, {"3", "_b7", "13", "9"},
            {"1", "_b3", "_b7", "_b_b7"}}}

InitTarget ==
  /\ progression = <<>>
  /\ slider \in TargetSliders
  /\ config \in {c \in PolicyConfigs : c.landingOrder = NoWeights}
  /\ run = NewRun(slider, config)
  /\ IdleDet
  /\ IdleGen
  /\ IdleFit
  /\ IdleApi
  /\ IdleSel

\* A call that returns: lastMidi and direction are updated.
TargetReturns ==
  /\ \E chordSymbol \in TargetSymbols : \E profile \in TargetProfiles :
     \E picked \in {nextTarget(gen, chordSymbol, profile)} :
       /\ picked.ok
       /\ gen' = picked.gen
       /\ genLast' = picked.target
       /\ genCall' = <<[chordSymbol |-> chordSymbol, profile |-> profile,
                        before |-> gen]>>
  /\ UNCHANGED <<selVars, genCount, genLow, genHigh, apiVars, fitVars, inputVars, schedVars,
                 detVars>>

\* A call that throws: the generator keeps its state.
TargetThrows ==
  /\ \E chordSymbol \in TargetSymbols : \E profile \in TargetProfiles :
     \E picked \in {nextTarget(gen, chordSymbol, profile)} :
       /\ ~picked.ok
       /\ genCall' = <<[chordSymbol |-> chordSymbol, profile |-> profile,
                        before |-> gen]>>
  /\ genLast' = <<>>
  /\ UNCHANGED <<selVars, gen, genCount, genLow, genHigh, apiVars, fitVars, inputVars,
                 schedVars, detVars>>

NextTarget == TargetReturns \/ TargetThrows

SpecTarget == InitTarget /\ [][NextTarget]_vars

(***************************************************************************)
(* SpecSelect: one policy manager and the calls of selectFormula made with *)
(* it, for a target of type 1 or 2 and any outcome of generator().  sel    *)
(* keeps the manager, the last call's arguments and what the call did.     *)
(***************************************************************************)
FormulaTypes == {1, 2}

\* formula.lengthWeights and formula.groupWeights: absent, zero for every
\* candidate of a type, negative for every candidate of a type, mixed, and
\* the largest finite number for a length.
SelectWeights ==
  { [lengthWeights |-> NoWeights, groupWeights |-> NoWeights],
    [lengthWeights |-> NoWeights,
     groupWeights |-> (<<1, "dobles">> :> 0) @@ (<<1, "triples">> :> 0) @@
                      (<<1, "quintuples">> :> 0)],
    [lengthWeights |-> (<<2, 1>> :> -10) @@ (<<2, 4>> :> -5) @@ (<<2, 6>> :> -10) @@
                       (<<2, 8>> :> -20),
     groupWeights |-> NoWeights],
    [lengthWeights |-> (<<1, 3>> :> 5) @@ (<<1, 5>> :> 40) @@ (<<2, 4>> :> 0),
     groupWeights |-> (<<1, "triples">> :> 6) @@ (<<2, "octuples">> :> -10)],
    [lengthWeights |-> (<<1, 3>> :> MAX_VALUE), groupWeights |-> NoWeights],
    [lengthWeights |-> (<<1, 3>> :> MAX_VALUE),
     groupWeights |-> (<<1, "triples">> :> 0)],
    [lengthWeights |-> (<<1, 5>> :> MAX_VALUE),
     groupWeights |-> (<<1, "quintuples">> :> -10)] }

\* formula.repeatTipoPenalty, in twentieths: absent, 0, 0.4, 0.95, 1.5, -0.25.
SelectPenalties == {<<>>, <<0>>, <<8>>, <<19>>, <<30>>, <<-5>>}

SelectConfigs ==
  {[lengthWeights |-> w.lengthWeights, groupWeights |-> w.groupWeights,
    repeatTipoPenalty |-> p, landingOrder |-> NoWeights] :
     w \in SelectWeights, p \in SelectPenalties}

InitSelect ==
  /\ progression = <<>>
  /\ slider = <<>>
  /\ config \in SelectConfigs
  /\ run = NewRun(slider, config)
  /\ IdleDet
  /\ IdleGen
  /\ IdleFit
  /\ IdleApi
  /\ sel = <<[policy |-> createPolicyManager(config), call |-> <<>>, formula |-> <<>>]>>

\* What selectFormula does for a target of type tipo when generator() gives u.
SelectCall(tipo, u) ==
  {selectFormula(("3" :> tipo), [degree |-> "3"], u, sel[1].policy)}

\* A call that returns [...selected.pattern]; the manager registers the type.
SelectReturns ==
  /\ \E tipo \in FormulaTypes : \E u \in DrawWords : \E picked \in SelectCall(tipo, u) :
       /\ picked.ok
       /\ sel' = <<[policy |-> picked.policy,
                    call |-> <<[tipo |-> tipo, u |-> u, policy |-> sel[1].policy]>>,
                    formula |-> <<picked.formula>>]>>
  /\ UNCHANGED <<apiVars, inputVars, schedVars, detVars, genVars, fitVars>>

\* A call that throws: nothing is registered.
SelectThrows ==
  /\ \E tipo \in FormulaTypes : \E u \in DrawWords : \E picked \in SelectCall(tipo, u) :
       /\ ~picked.ok
       /\ sel' = <<[policy |-> picked.policy,
                    call |-> <<[tipo |-> tipo, u |-> u, policy |-> sel[1].policy]>>,
                    formula |-> <<>>]>>
  /\ UNCHANGED <<apiVars, inputVars, schedVars, detVars, genVars, fitVars>>

NextSelect == SelectReturns \/ SelectThrows

SpecSelect == InitSelect /\ [][NextSelect]_vars

(***************************************************************************)
(* SpecFit: one call of fitFormula, statement by statement, on a window    *)
(* the parser can produce, the window before it (none for the first), a    *)
(* formula of any length from 1 and any landing preference.                *)
(***************************************************************************)
\* Windows of parseProgression: bars of 8 eighths, split in two or not.
FitWindows ==
  {w \in [chordSymbol : {normalizeToken(Chord("C", "", "DELTA"))},
          startEighth : {4 * k : k \in 0..(2 * MaxBars - 1)},
          lengthEighths : {4, 8}] :
     (w.startEighth % 8) + w.lengthEighths <= 8}

\* The window before window in a parsed progression: <<>> for the first.
PreviousWindows(window) ==
  IF window.startEighth = 0 THEN {<<>>}
  ELSE {<<w>> : w \in {v \in FitWindows :
                         v.startEighth + v.lengthEighths = window.startEighth}}

\* A formula of n notes: distinct approach offsets, then the target's 0.
FormulaOfLength(n) == [i \in 1..n |-> n - i]

FitFormulas ==
  {FormulaOfLength(n) : n \in 1..MaxFormula} \cup
  UNION {{flattenFormulas(getFormulas(tipo))[i].pattern :
            i \in 1..Len(flattenFormulas(getFormulas(tipo)))} : tipo \in {1, 2}}

LandingPreferences ==
  {<<>>, <<3, 1>>, <<7, 5, 3, 1>>, <<5, 2, 3, 3>>, <<9, 0, 5, 5, 1>>, <<5>>, <<2, 4>>}

InitFit ==
  /\ IdleApi
  /\ IdleSel
  /\ progression = <<>>
  /\ slider = <<>>
  /\ config \in {c \in PolicyConfigs : c.landingOrder = NoWeights}
  /\ run = NewRun(slider, config)
  /\ IdleDet
  /\ IdleGen
  /\ \E window \in FitWindows : \E previousWindow \in PreviousWindows(window) :
     \E formula \in FitFormulas : \E landingPreference \in LandingPreferences :
       fit = [pc |-> "call", window |-> window, formula |-> formula,
              previousWindow |-> previousWindow,
              landingPreference |-> landingPreference,
              current |-> <<>>, placement |-> <<>>, placements |-> <<>>]

\* Lines 87-89: current, placement, lowerBound.
FitEnter ==
  /\ fit.pc = "call"
  /\ \E placement \in {computeRhythmPlacement(fit.window, Len(fit.formula),
                                                fit.landingPreference)} :
       fit' = [fit EXCEPT !.pc = "while", !.current = fit.formula,
                          !.placement = <<placement>>,
                          !.placements = <<placement>>]
  /\ UNCHANGED <<selVars, apiVars, inputVars, schedVars, detVars, genVars>>

\* Lines 90-97: one iteration that does not break.
FitShrink ==
  /\ fit.pc = "while"
  /\ Len(fit.current) > 1
  /\ Earliest(fit.placement[1]) < LowerBound(fit.previousWindow)
  /\ \E current \in {DropLeading(fit.current)} :
     \E placement \in {computeRhythmPlacement(fit.window, Len(current),
                                                fit.landingPreference)} :
       fit' = [fit EXCEPT !.current = current, !.placement = <<placement>>,
                          !.placements = Append(@, placement)]
  /\ UNCHANGED <<selVars, apiVars, inputVars, schedVars, detVars, genVars>>

\* Lines 90-93 and 98: the loop ends, { formula: current, placement } is returned.
FitReturn ==
  /\ fit.pc = "while"
  /\ ~(Len(fit.current) > 1 /\ Earliest(fit.placement[1]) < LowerBound(fit.previousWindow))
  /\ fit' = [fit EXCEPT !.pc = "return"]
  /\ UNCHANGED <<selVars, apiVars, inputVars, schedVars, detVars, genVars>>

NextFit == FitEnter \/ FitShrink \/ FitReturn

SpecFit == InitFit /\ [][NextFit]_vars /\ WF_vars(NextFit)

(***************************************************************************)
(* SpecVariants: one call of generateVariantsFromRequest, variant by       *)
(* variant.                                                                *)
(***************************************************************************)
\* baseRequest.seed: undefined, small, and around 2^53.
BaseSeeds ==
  {<<>>, <<NumOf(0)>>, <<NumOf(42)>>,
   <<[hi |-> Pow2(26) - 1, lo |-> Limb - 1]>>, <<[hi |-> Pow2(26), lo |-> 0]>>}

\* Date.now() % 0xffffffff
ClockSeeds == {NumOf(5), [hi |-> 31, lo |-> Limb - 2]}

Counts == {<<>>} \cup {<<n>> : n \in 0..MaxVariants}

SuppliedSeeds ==
  {<< <<NumOf(1)>> >>, << <<NumOf(7), NumOf(42)>> >>, << <<NumOf(42), NumOf(7)>> >>,
   << <<NumOf(42), NumOf(42)>> >>}

Payloads ==
  {[baseSeed |-> b, count |-> c, seeds |-> <<>>, now |-> n] :
     b \in BaseSeeds, c \in Counts, n \in ClockSeeds} \cup
  {[baseSeed |-> <<NumOf(42)>>, count |-> c, seeds |-> sd, now |-> NumOf(5)] :
     c \in {<<>>, <<1>>, <<2>>}, sd \in SuppliedSeeds}

\* { ...baseRequest, seed }
RequestWith(seedOption) ==
  [progression |-> progression, contour_slider |-> slider, seed |-> seedOption]

Options == [policyConfig |-> config]

\* No bar, each single bar, and the progression of the variants test.
VariantProgressions ==
  {prog \in Progressions : Len(prog) <= 1} \cup
  {<< <<Chord("D", "", "m9"), Chord("G", "", "13")>>, <<Chord("C", "", "DELTA")>> >>}

InitVariants ==
  /\ progression \in VariantProgressions
  /\ slider \in Sliders
  /\ config \in {c \in PolicyConfigs : c.repeatTipoPenalty = <<>>}
  /\ run = NewRun(slider, config)
  /\ IdleDet
  /\ IdleGen
  /\ IdleFit
  /\ IdleSel
  /\ \E payload \in Payloads :
       variants = [pc |-> "call", payload |-> payload, seeds |-> <<>>, out |-> <<>>]

\* Lines 297-302: count, providedSeeds, seeds.
VariantsEnter ==
  /\ variants.pc = "call"
  /\ LET payload == variants.payload
         count == normalizeVariantCount(payload.count)
     IN IF count = <<>> \/ ~sanitizeSeeds(payload.seeds, count[1]).ok
          THEN variants' = [variants EXCEPT !.pc = "error"]
          ELSE LET provided == sanitizeSeeds(payload.seeds, count[1]).seeds
               IN variants' =
                    [variants EXCEPT
                       !.pc = "map",
                       !.seeds = IF provided # <<>> THEN provided[1]
                                 ELSE DefaultSeeds(normalizeSeed(payload.baseSeed,
                                                                 payload.now), count[1])]
  /\ UNCHANGED <<selVars, inputVars, schedVars, detVars, genVars, fitVars>>

\* Lines 303-306: one call of the seeds.map callback.
VariantGenerate ==
  /\ variants.pc = "map"
  /\ Len(variants.out) < Len(variants.seeds)
  /\ \E made \in {generateFromRequest(
                     RequestWith(<<variants.seeds[Len(variants.out) + 1]>>),
                     Options, variants.payload.now)} :
       variants' = IF made.ok THEN [variants EXCEPT !.out = Append(@, made)]
                   ELSE [variants EXCEPT !.pc = "error"]
  /\ UNCHANGED <<selVars, inputVars, schedVars, detVars, genVars, fitVars>>

\* Line 307: return { variants }.
VariantsReturn ==
  /\ variants.pc = "map"
  /\ Len(variants.out) = Len(variants.seeds)
  /\ variants' = [variants EXCEPT !.pc = "return"]
  /\ UNCHANGED <<selVars, inputVars, schedVars, detVars, genVars, fitVars>>

NextVariants == VariantsEnter \/ VariantGenerate \/ VariantsReturn

SpecVariants == InitVariants /\ [][NextVariants]_vars

(***************************************************************************)
(* Properties                                                              *)
(***************************************************************************)
Returned == run.returned # <<>>
Output == run.returned[1]

OfSource(notes, src) == SelectSeq(notes, LAMBDA n : n.src = src)

Ended(r) == runs[r] # <<>> /\ runs[r][1].pc \in {"done", "error"}

LegalOffsets(length) == IF length = 4 THEN {1, 3} ELSE {1, 3, 5, 7}

\* C2.  Landing parity: the target note pushed for a window lies at an odd
\* offset from the window's start, inside the legal set for the window's
\* length ({1,3} for 4 eighths, {1,3,5,7} otherwise), under every landing
\* preference, also one that lists illegal, even or repeated offsets.
C2_LandingParity ==
  \A j \in 1..Len(run.log) : \A k \in 1..Len(run.log[j]) :
     run.log[j][k].src = "target" =>
        LET offset == run.log[j][k].t - run.windows[j].startEighth
        IN /\ offset % 2 = 1
           /\ offset \in LegalOffsets(run.windows[j].lengthEighths)

\* A window of 4 eighths scheduled under a preference that starts with an
\* illegal and an even offset, its target landing on offset 3.
C2_Witness ==
  /\ Returned
  /\ \E j \in 1..Len(run.log) :
       /\ run.windows[j].lengthEighths = 4
       /\ getLandingPreferences(run.policy, 4) = <<5, 2, 3, 3>>
       /\ \E k \in 1..Len(run.log[j]) :
            /\ run.log[j][k].src = "target"
            /\ run.log[j][k].t = run.windows[j].startEighth + 3

\* C3 as stated.  The returned list is strictly sorted by t: no two notes
\* share a time.
C3_StrictlySorted ==
  Returned => \A i \in 1..Len(Output) : \A j \in 1..Len(Output) :
                 i < j => Output[i].t < Output[j].t

TargetsWithin(notes, window) ==
  {i \in 1..Len(notes) : /\ notes[i].src = "target"
                         /\ window.startEighth <= notes[i].t
                         /\ notes[i].t < window.startEighth + window.lengthEighths}

\* C4.  Window capacity: exactly one target note is pushed per window, at a
\* time inside the window; the returned list holds exactly one target inside
\* each window (so at most one in a window of 4 eighths) and none elsewhere.
C4_WindowCapacity ==
  /\ \A j \in 1..Len(run.log) :
       /\ Len(OfSource(run.log[j], "target")) = 1
       /\ Cardinality(TargetsWithin(run.log[j], run.windows[j])) = 1
  /\ Returned =>
       /\ Len(OfSource(Output, "target")) = Len(run.windows)
       /\ \A j \in 1..Len(run.windows) :
            Cardinality(TargetsWithin(Output, run.windows[j])) = 1

\* A returned list for at least three windows, two of them of 4 eighths.
C4_Witness ==
  /\ Returned
  /\ Len(run.windows) >= 3
  /\ Cardinality({j \in 1..Len(run.windows) : run.windows[j].lengthEighths = 4}) >= 2
  /\ Len(OfSource(Output, "target")) >= 3

\* C5.  Anticipation bound: every note pushed for window j has t at or after
\* the start of window j-1, and t >= 0 for the first window; no returned note
\* has a negative time.
C5_AnticipationBound ==
  /\ \A j \in 1..Len(run.log) : \A k \in 1..Len(run.log[j]) :
       run.log[j][k].t >= (IF j > 1 THEN run.windows[j - 1].startEighth ELSE 0)
  /\ Returned => \A i \in 1..Len(Output) : Output[i].t >= 0

\* A later window whose first pushed note sounds exactly at the start of the
\* previous window, in a run whose first window pushed approach notes.
C5_Witness ==
  /\ Returned
  /\ Len(run.log) >= 2
  /\ Len(OfSource(run.log[1], "approach")) >= 1
  /\ \E j \in 2..Len(run.log) :
       /\ run.log[j][1].t = run.windows[j - 1].startEighth
       /\ run.log[j][1].src # "target"

\* C6.  The returned list holds exactly one closure note when it holds a
\* target note and none otherwise; a progression without bars returns the
\* empty list.
C6_ClosureCount ==
  Returned =>
     /\ Len(OfSource(Output, "closure")) =
          (IF Len(OfSource(Output, "target")) > 0 THEN 1 ELSE 0)
     /\ (progression = <<>> => Output = <<>>)

\* A returned list with two targets or more and its closure note.
C6_Witness ==
  /\ Returned
  /\ Len(OfSource(Output, "target")) >= 2
  /\ Len(OfSource(Output, "closure")) = 1

\* The greatest t among the notes of a source (for a non-empty selection).
MaxT(notes) == CHOOSE t \in {notes[i].t : i \in 1..Len(notes)} :
                 \A i \in 1..Len(notes) : notes[i].t <= t

\* C7.  Closure time: the closure note's t is the greatest target time plus
\* one, is even, exceeds the t of every other note, and the closure note is
\* the last element of the returned list.
C7_ClosureTime ==
  (Returned /\ Len(OfSource(Output, "closure")) > 0) =>
     LET last == Output[Len(Output)]
     IN /\ last.src = "closure"
        /\ last.t = MaxT(OfSource(Output, "target")) + 1
        /\ last.t % 2 = 0
        /\ \A i \in 1..(Len(Output) - 1) : Output[i].t < last.t

\* A returned list whose targets are two or more, with approach notes that
\* anticipate the last target's window.
C7_Witness ==
  /\ Returned
  /\ Len(OfSource(Output, "target")) >= 2
  /\ Output[Len(Output)].src = "closure"
  /\ \E j \in 2..Len(run.log) : run.log[j][1].t < run.windows[j].startEighth

\* The target with the greatest t (target times are distinct).
LastTargetOf(notes) ==
  CHOOSE n \in {notes[i] : i \in 1..Len(notes)} :
     n.src = "target" /\ n.t = MaxT(OfSource(notes, "target"))

\* C8.  Closure law: the closure note lies within 11 semitones of the last
\* target (the target with the greatest t) and inside C4-C6, [60, 84].
C8_ClosureLaw ==
  Returned => \A i \in 1..Len(Output) :
     Output[i].src = "closure" =>
        /\ Abs(Output[i].midi - LastTargetOf(Output).midi) <= 11
        /\ 60 <= Output[i].midi /\ Output[i].midi <= 84

\* A closure after a last target on the floor of the register (midi 60 or
\* 61), where two semitones below would leave the register.
C8_Witness ==
  /\ Returned
  /\ Len(OfSource(Output, "closure")) = 1
  /\ LastTargetOf(Output).midi <= 61

\* C9.  Fixed register: every target, approach and isolated note has its
\* midi in [60, 84], whatever the contour target and the formula offset.
C9_FixedRegister ==
  /\ \A i \in 1..Len(run.notes) :
       run.notes[i].src \in {"target", "approach", "isolated"} =>
          (60 <= run.notes[i].midi /\ run.notes[i].midi <= 84)
  /\ Returned => \A i \in 1..Len(Output) :
       Output[i].src \in {"target", "approach", "isolated"} =>
          (60 <= Output[i].midi /\ Output[i].midi <= 84)

\* An approach note realised from an offset that leaves the register: the
\* target on the ceiling (84) with an approach above it wrapped an octave down.
C9_Witness ==
  \E j \in 1..Len(run.log) : \E k \in 1..Len(run.log[j]) : \E m \in 1..Len(run.log[j]) :
     /\ run.log[j][k].src = "target" /\ run.log[j][k].midi = 84
     /\ run.log[j][m].src = "approach" /\ run.log[j][m].midi = 84 + 13 - 24

\* C10 (SpecContour).  Contour register: with padding = round(slider * 8),
\* rangeMin = min(84, 60 + padding) and rangeMax = max(rangeMin, 84 - padding),
\* every midi nextTarget has returned lies in [rangeMin, rangeMax]; for slider
\* 1 the spread of the returned midis is at most 8.
C10_ContourRegister ==
  LET tenths == IF slider = <<>> THEN 4 ELSE slider[1]
      padding == CHOOSE p \in 0..8 : 10 * p - 5 <= 8 * tenths /\ 8 * tenths < 10 * p + 5
      rangeMin == Min2(84, 60 + padding)
      rangeMax == Max2(rangeMin, 84 - padding)
  IN /\ genLast # <<>> => (rangeMin <= genLast[1].midi /\ genLast[1].midi <= rangeMax)
     /\ genLow # <<>> => (rangeMin <= genLow[1] /\ genHigh[1] <= rangeMax)
     /\ (slider = <<10>> /\ genLow # <<>>) => genHigh[1] - genLow[1] <= 8

\* Slider 1, several calls made, the returned midis spanning the full 8.
C10_Witness ==
  /\ slider = <<10>>
  /\ genCount >= 3
  /\ genLow # <<>>
  /\ genHigh[1] - genLow[1] = 8

\* C11 (SpecRepeat).  Register law: a generator of slider 0, called 16 times on
\* a C-rooted chord whose profile has the degree 1, has returned a midi <= 60
\* and a midi >= 84.
C11_RegisterLaw ==
  (slider = <<0>> /\ genCount >= 16) => (genLow[1] <= 60 /\ genHigh[1] >= 84)

\* A fresh generator of slider 0 (no startMidi: the first target is 72, in the
\* middle) after its 16th call, both ends returned.
C11_Witness ==
  /\ slider = <<0>>
  /\ genCount = 16
  /\ genLow = <<60>> /\ genHigh = <<84>>
  /\ genLast # <<>> /\ genLast[1].degree = "1"

\* C12 (SpecFit).  Fit-shrink termination: fitFormula returns, for every
\* formula of one note or more and every window.  Each iteration drops one
\* leading approach offset, so what it holds, and what it returns, is a
\* non-empty suffix of the given formula that keeps the last element (the
\* target); on return the earliest time (the isolated note's if there is
\* one, else approachStart) is at or after the lower bound (the previous
\* window's start, 0 for the first window) or the formula has one note.
C12_FitShrinkTermination ==
  /\ <>(fit.pc = "return")
  /\ [](fit.pc \in {"while", "return"} =>
          /\ Len(fit.current) >= 1
          /\ Len(fit.current) = Len(fit.formula) - (Len(fit.placements) - 1)
          /\ fit.current = SubSeq(fit.formula,
                                   Len(fit.formula) - Len(fit.current) + 1,
                                   Len(fit.formula))
          /\ fit.current[Len(fit.current)] = fit.formula[Len(fit.formula)])
  /\ [](fit.pc = "return" =>
          /\ \/ Earliest(fit.placement[1]) >= LowerBound(fit.previousWindow)
             \/ Len(fit.current) = 1
          /\ fitFormula(fit.window, fit.formula, fit.previousWindow,
                        fit.landingPreference)
               = [formula |-> fit.current, placement |-> fit.placement[1]])

\* A formula of eight notes fitted after a previous window: two iterations
\* dropped two offsets and the call returned six notes.
C12_Witness ==
  /\ fit.pc = "return"
  /\ fit.previousWindow # <<>>
  /\ Len(fit.formula) = 8
  /\ Len(fit.current) = 6
  /\ Len(fit.placements) = 3

\* The notes in emission order: window by window, as pushed.
RECURSIVE Emitted(_)
Emitted(log) == IF log = <<>> THEN <<>> ELSE Head(log) \o Emitted(Tail(log))

AtTime(notes, t) == SelectSeq(notes, LAMBDA n : n.t = t)

SourceRank(src) == CASE src = "isolated" -> 0 [] src = "approach" -> 1
                     [] src = "target" -> 2 [] OTHER -> 3

\* C13.  Ordering: the returned list is sorted non-decreasingly by t, and the
\* notes of equal t keep their emission order: the notes of an earlier window
\* before those of a later one and, within a window, the isolated note, then
\* the approach notes, then the target.
C13_Ordering ==
  Returned =>
     /\ \A i \in 1..(Len(Output) - 1) : Output[i].t <= Output[i + 1].t
     /\ \A t \in {Output[i].t : i \in 1..Len(Output)} :
          AtTime(Output, t) = AtTime(Emitted(run.log) \o OfSource(Output, "closure"), t)
     /\ \A j \in 1..Len(run.log) : \A k \in 1..(Len(run.log[j]) - 1) :
          /\ SourceRank(run.log[j][k].src) <= SourceRank(run.log[j][k + 1].src)
          /\ run.log[j][k].t < run.log[j][k + 1].t

\* A returned list with a tie: a note of the first window directly followed by
\* a note of the second window at the same t.
C13_Witness ==
  /\ Returned
  /\ Len(run.log) >= 2
  /\ \E i \in 1..(Len(Output) - 1) :
       /\ Output[i].t = Output[i + 1].t
       /\ Output[i].chord = <<run.windows[1].chordSymbol>>
       /\ Output[i + 1].chord = <<run.windows[2].chordSymbol>>
       /\ run.windows[1].chordSymbol # run.windows[2].chordSymbol

\* The window can be processed without an error being raised: its chord has
\* a theory profile and the notes pushed for it hold a target on a degree of
\* the profile whose formula type is 1 or 2.
Processed(window, pushed) ==
  /\ QualityKnown(window.chordSymbol)
  /\ \E k \in 1..Len(pushed) :
       /\ pushed[k].src = "target"
       /\ pushed[k].degree # <<>>
       /\ pushed[k].degree[1] \in DOMAIN getChordProfile(window.chordSymbol)
       /\ getChordProfile(window.chordSymbol)[pushed[k].degree[1]] \in {1, 2}

\* C14.  Error atomicity: a call in which the processing of a window raised
\* an error returns nothing, however many windows it had processed; it is
\* not resumed (no retry); and a list is returned only when every window was
\* processed without error, so there is no partial note list.
C14_ErrorAtomicity ==
  /\ [](run.pc = "error" => run.returned = <<>>)
  /\ [][run.pc = "error" => run' = run]_vars
  /\ [](Returned => /\ Len(run.log) = Len(run.windows)
                    /\ \A j \in 1..Len(run.windows) :
                         Processed(run.windows[j], run.log[j]))

\* An error raised by selectFormula (the target's formula type is neither 1
\* nor 2) in a later window, after notes were pushed for the windows before.
C14_Witness ==
  /\ run.pc = "error"
  /\ run.returned = <<>>
  /\ Len(run.log) >= 1
  /\ Len(run.notes) >= 2
  /\ QualityKnown(run.windows[run.index + 1].chordSymbol)

\* C15 as stated (SpecContour).  Contour wave: from one nextTarget call to
\* the next the direction stays as it is unless the target just returned
\* touches the ceiling or the floor of the register (within the two
\* semitones the code counts as touching); only then is it inverted.
C15_ContourWave ==
  [][gen'.direction # gen.direction =>
       \/ gen'.lastMidi[1] >= gen.rangeMax - 2
       \/ gen'.lastMidi[1] <= gen.rangeMin + 2]_vars

\* C16 as stated.  Every isolated note of the returned list carries no chord
\* label and no degree label.
C16_IsolatedUnlabelled ==
  Returned => \A i \in 1..Len(Output) :
     Output[i].src = "isolated" => (Output[i].chord = <<>> /\ Output[i].degree = <<>>)

\* C17 as stated (SpecVariants).  No cross-request persistence: every variant
\* returned is what generateFromRequest returns for the base request with
\* that variant's seed alone; and when no seeds are supplied the seed of
\* variant i is normalizeSeed(baseRequest.seed) + i (i from 0) and the
\* variants' seeds are pairwise distinct.
C17_NoCrossRequestPersistence ==
  variants.pc = "return" =>
     /\ \A i \in 1..Len(variants.out) :
          variants.out[i] = generateFromRequest(RequestWith(<<variants.seeds[i]>>),
                                                Options, variants.payload.now)
     /\ variants.payload.seeds = <<>> =>
          /\ \A i \in 1..Len(variants.out) :
               variants.out[i].seed =
                 <<DoubleAdd(normalizeSeed(variants.payload.baseSeed,
                                           variants.payload.now), i - 1)>>
          /\ \A i \in 1..Len(variants.out) : \A j \in 1..Len(variants.out) :
               i # j => variants.out[i].seed # variants.out[j].seed

\* C18 (SpecFit).  Placement arithmetic: the placement computed for a formula
\* of n >= 1 notes has approachStart = landing - (n - 1); isolated is
\* approachStart - 1 exactly when approachStart is odd, negative odd values
\* included, and null otherwise; totalStart is isolated when there is one and
\* approachStart otherwise, so totalStart is even.
C18_PlacementArithmetic ==
  \A k \in 1..Len(fit.placements) :
     LET placement == fit.placements[k]
         n == Len(fit.formula) - (k - 1)
     IN /\ n >= 1
        /\ placement.approachStart = placement.landing - (n - 1)
        /\ (placement.approachStart % 2 = 1) =>
              placement.isolated = <<placement.approachStart - 1>>
        /\ (placement.approachStart % 2 = 0) => placement.isolated = <<>>
        /\ placement.totalStart = (IF placement.isolated # <<>> THEN placement.isolated[1]
                                   ELSE placement.approachStart)
        /\ placement.totalStart % 2 = 0

\* A placement with a negative odd approachStart and its isolated note one
\* eighth earlier, and a later placement of the same call without isolated.
C18_Witness ==
  /\ fit.pc = "return"
  /\ Len(fit.placements) >= 2
  /\ fit.placements[1].approachStart < 0
  /\ fit.placements[1].approachStart % 2 = 1
  /\ fit.placements[1].isolated = <<fit.placements[1].approachStart - 1>>
  /\ fit.placements[Len(fit.placements)].isolated = <<>>

\* The first offset of the configured order for the length that is legal for
\* it; 1 when no order is configured for the length or none of its offsets
\* is legal.
PreferredOffset(landingOrder, length) ==
  IF length \in DOMAIN landingOrder
     /\ \E i \in 1..Len(landingOrder[length]) :
          landingOrder[length][i] \in LegalOffsets(length)
    THEN LET first == CHOOSE i \in 1..Len(landingOrder[length]) :
                        /\ landingOrder[length][i] \in LegalOffsets(length)
                        /\ \A h \in 1..(i - 1) :
                             landingOrder[length][h] \notin LegalOffsets(length)
         IN landingOrder[length][first]
    ELSE 1

\* C19.  Landing preference: the target of a window lands at the window's
\* start plus the first offset of the policy's preferred order that is legal
\* for the window's length, and at the start plus 1 when no order is given
\* or none of its offsets is legal; whatever formula was selected and however
\* fitFormula shortened it.
C19_LandingPreference ==
  \A j \in 1..Len(run.log) : \A k \in 1..Len(run.log[j]) :
     run.log[j][k].src = "target" =>
        run.log[j][k].t = run.windows[j].startEighth +
                          PreferredOffset(config.landingOrder,
                                          run.windows[j].lengthEighths)

\* A window of 8 eighths under the order 9, 0, 5, 5, 1: its target on offset 5
\* after at least two approach notes, and in the same run a window of 4
\* eighths under the order 5, 2, 3, 3 with its target on offset 3.
C19_Witness ==
  /\ Returned
  /\ config.landingOrder # NoWeights
  /\ config.landingOrder[8] = <<9, 0, 5, 5, 1>>
  /\ \E j \in 1..Len(run.log) :
       /\ run.windows[j].lengthEighths = 8
       /\ Len(run.log[j]) >= 3
       /\ run.log[j][Len(run.log[j])].t = run.windows[j].startEighth + 5
  /\ \E j \in 1..Len(run.log) :
       /\ run.windows[j].lengthEighths = 4
       /\ run.log[j][Len(run.log[j])].t = run.windows[j].startEighth + 3

\* The notes pushed for a window realise the formula: with retained the
\* approach offsets fitFormula keeps of it, one approach note per retained
\* offset, in order, at the consecutive eighths up to landing - 1, each the
\* target's midi plus the offset wrapped into [60, 84]; the isolated note, if
\* any, one eighth before the first of them; the target last, at landing.
Realises(pushed, window, previousWindow, landingPreference, formula) ==
  LET target == pushed[Len(pushed)]
      approaches == OfSource(pushed, "approach")
      isolated == OfSource(pushed, "isolated")
      kept == fitFormula(window, formula, previousWindow, landingPreference).formula
      retained == Len(kept) - 1
      approachStart == target.t - retained
  IN /\ target.src = "target"
     /\ Len(approaches) = retained
     /\ \A i \in 1..retained :
          /\ approaches[i].t = approachStart + (i - 1)
          /\ approaches[i].midi = wrapMidiToRange(target.midi + kept[i], 60, 84)
          /\ approaches[i].chord = <<window.chordSymbol>>
     /\ Len(isolated) <= 1
     /\ \A i \in 1..Len(isolated) : isolated[i].t = approachStart - 1
     /\ pushed = isolated \o approaches \o <<target>>

\* C20.  Approach realisation and anticipation: for each window every approach
\* offset retained by fitFormula (of some formula of the catalogue for the
\* target's type) yields exactly one approach note, none is dropped, at the
\* consecutive eighths approachStart, ..., landing - 1, followed by the target
\* at landing, the isolated note (if any) at approachStart - 1; an approach
\* note before its window's start lies inside the previous window's span and
\* carries the current window's chord.
C20_ApproachRealisation ==
  \A j \in 1..Len(run.log) :
     LET pushed == run.log[j]
         window == run.windows[j]
         previousWindow == IF j > 1 THEN <<run.windows[j - 1]>> ELSE <<>>
         tipo == getChordProfile(window.chordSymbol)[pushed[Len(pushed)].degree[1]]
         catalogue == flattenFormulas(getFormulas(tipo))
     IN /\ \E c \in 1..Len(catalogue) :
             Realises(pushed, window, previousWindow,
                      getLandingPreferences(run.policy, window.lengthEighths),
                      catalogue[c].pattern)
        /\ \A k \in 1..Len(pushed) :
             (pushed[k].src = "approach" /\ pushed[k].t < window.startEighth) =>
                /\ j > 1
                /\ run.windows[j - 1].startEighth <= pushed[k].t
                /\ pushed[k].chord = <<window.chordSymbol>>

\* A later window with two approach notes or more, the first of them sounding
\* inside the previous window under the later window's chord.
C20_Witness ==
  /\ Returned
  /\ \E j \in 2..Len(run.log) :
       LET approaches == OfSource(run.log[j], "approach")
       IN /\ Len(approaches) >= 2
          /\ approaches[1].t < run.windows[j].startEighth
          /\ run.windows[j - 1].startEighth <= approaches[1].t
          /\ approaches[1].chord # <<run.windows[j - 1].chordSymbol>>

CandidatesAt(call, degree) ==
  resolveDegreeCandidates(
    computeRootMidi(call.chordSymbol, call.before.rangeMin, call.before.rangeMax),
    degree, call.before.rangeMin, call.before.rangeMax)

AnchorAt(call) ==
  IF call.before.lastMidi = <<>>
    THEN (call.before.rangeMin + call.before.rangeMax) * 500
    ELSE IF call.before.direction = 1 THEN call.before.rangeMax * 1000
         ELSE call.before.rangeMin * 1000

NearestDistanceAt(call, degree) ==
  LET candidates == CandidatesAt(call, degree)
      distances == {Abs(candidates[i] * 1000 - AnchorAt(call)) : i \in 1..Len(candidates)}
  IN CHOOSE d \in distances : \A e \in distances : d <= e

\* C22 as stated.  Degree priority is only a tie-break: a degree whose
\* nearest in-register candidate is strictly farther from the anchor than
\* another degree's is never the one nextTarget returns, whatever the two
\* degrees' places in the priority order.
C22_PriorityOnlyTieBreak ==
  (genCall # <<>> /\ genLast # <<>>) =>
     \A d \in DOMAIN genCall[1].profile : \A e \in DOMAIN genCall[1].profile :
        (/\ CandidatesAt(genCall[1], d) # <<>>
         /\ CandidatesAt(genCall[1], e) # <<>>
         /\ NearestDistanceAt(genCall[1], d) < NearestDistanceAt(genCall[1], e))
        => genLast[1].degree # e

\* The degrees of the recorded call's profile with an in-register candidate,
\* and the score of a degree (in thousandths).
ServedAt(call) == {d \in DOMAIN call.profile : CandidatesAt(call, d) # <<>>}

ScoreAt(call, degree) == NearestDistanceAt(call, degree) + 100 * priorityIndex(degree)

\* C23.  Contour selection rule: nextTarget throws exactly when no degree of
\* the profile has a candidate inside the register; otherwise it returns a
\* degree of minimal score |candidate - anchor| + 0.1 * priorityIndex(degree)
\* among the degrees that have candidates, with that degree's candidate
\* nearest the anchor, the anchor being the middle of the register on the
\* first call and afterwards rangeMax when ascending, rangeMin when
\* descending; of two degrees of equal score the one earlier in the priority
\* order is returned.
C23_SelectionRule ==
  genCall # <<>> =>
     LET call == genCall[1]
     IN IF ServedAt(call) = {}
          THEN genLast = <<>> /\ gen = call.before
          ELSE /\ genLast # <<>>
               /\ genLast[1].degree \in ServedAt(call)
               /\ SeqHas(CandidatesAt(call, genLast[1].degree), genLast[1].midi)
               /\ Abs(genLast[1].midi * 1000 - AnchorAt(call))
                    = NearestDistanceAt(call, genLast[1].degree)
               /\ gen.lastMidi = <<genLast[1].midi>>
               /\ \A e \in ServedAt(call) :
                    /\ ScoreAt(call, genLast[1].degree) <= ScoreAt(call, e)
                    /\ ScoreAt(call, e) = ScoreAt(call, genLast[1].degree)
                         => priorityIndex(genLast[1].degree) <= priorityIndex(e)

\* A call after the first, descending (anchor rangeMin), that returned a
\* degree later in the priority order than another degree with candidates.
C23_Witness ==
  /\ genCall # <<>>
  /\ genLast # <<>>
  /\ genCall[1].before.lastMidi # <<>>
  /\ genCall[1].before.direction = -1
  /\ \E e \in ServedAt(genCall[1]) :
       priorityIndex(e) < priorityIndex(genLast[1].degree)

PatternsOf(tipo) ==
  {flattenFormulas(getFormulas(tipo))[i].pattern :
     i \in 1..Len(flattenFormulas(getFormulas(tipo)))}

\* C25 as stated.  Selectable outcome: for a target of type 1 or 2 and any
\* policy configuration with finite multipliers, zero and negative ones
\* included, selectFormula returns a pattern of that type's catalogue; it
\* never fails.
C25_SelectableOutcome ==
  (sel # <<>> /\ sel[1].call # <<>>) =>
     /\ sel[1].formula # <<>>
     /\ sel[1].formula[1] \in PatternsOf(sel[1].call[1].tipo)

\* The multipliers of the claim, in tenths (length, group) and twentieths
\* (repetition), for a candidate of type tipo under a manager.
LengthMultiplier(policy, tipo, candidate) ==
  IF <<tipo, Len(candidate.pattern)>> \in DOMAIN policy.config.lengthWeights
    THEN policy.config.lengthWeights[<<tipo, Len(candidate.pattern)>>] ELSE 10

GroupMultiplier(policy, tipo, candidate) ==
  IF <<tipo, candidate.group>> \in DOMAIN policy.config.groupWeights
    THEN policy.config.groupWeights[<<tipo, candidate.group>>] ELSE 10

RepeatMultiplier(policy, tipo) ==
  LET penalty == IF policy.config.repeatTipoPenalty = <<>> THEN 0
                 ELSE policy.config.repeatTipoPenalty[1]
      clamped == IF penalty < 0 THEN 0 ELSE IF penalty > 19 THEN 19 ELSE penalty
  IN IF policy.lastTipo = <<tipo>> THEN 20 - clamped ELSE 20

\* C26.  Policy weighting and repetition state: the weight of a
\* candidate is base x length multiplier x group multiplier x (1 - clamped
\* penalty), the last factor only when lastTipo is the candidate's type;
\* lastTipo is null before the first call and, after a call that returned,
\* the type of that call; a positive penalty on a repeated type strictly
\* lowers a positive weight and never makes it zero.
C26_PolicyWeighting ==
  sel # <<>> =>
     LET policy == sel[1].policy
         fresh == [policy EXCEPT !.lastTipo = <<>>]
     IN /\ sel[1].call = <<>> => policy.lastTipo = <<>>
        /\ (sel[1].call # <<>> /\ sel[1].formula # <<>>)
              => policy.lastTipo = <<sel[1].call[1].tipo>>
        /\ \A tipo \in FormulaTypes :
           \A c \in 1..Len(flattenFormulas(getFormulas(tipo))) :
           \A extra \in 0..1 :
              LET candidate == flattenFormulas(getFormulas(tipo))[c]
                  base == BaseWeight(candidate) + extra
                  weight == evaluateFormulaWeight(policy, tipo, candidate, base)
                  unrepeated == evaluateFormulaWeight(fresh, tipo, candidate, base)
              IN /\ LengthMultiplier(policy, tipo, candidate) # MAX_VALUE =>
                      weight = base * LengthMultiplier(policy, tipo, candidate)
                                    * GroupMultiplier(policy, tipo, candidate)
                                    * RepeatMultiplier(policy, tipo)
                 /\ (RepeatMultiplier(policy, tipo) < 20 /\ unrepeated # NaN
                       /\ unrepeated > 0)
                      => (0 < weight /\ weight < unrepeated)

\* A manager with penalty 1.5 (clamped to 0.95) after a call of type 1 that
\* returned: the quintuple's weight, 4 when unrepeated, is one twentieth of it.
C26_Witness ==
  /\ sel # <<>>
  /\ sel[1].call # <<>>
  /\ sel[1].formula # <<>>
  /\ sel[1].policy.lastTipo = <<1>>
  /\ config.repeatTipoPenalty = <<30>>
  /\ config.lengthWeights = NoWeights
  /\ \E c \in 1..Len(flattenFormulas(getFormulas(1))) :
       LET candidate == flattenFormulas(getFormulas(1))[c]
       IN /\ Len(candidate.pattern) = 5
          /\ evaluateFormulaWeight(sel[1].policy, 1, candidate, BaseWeight(candidate))
               = 4 * 10 * 10 * 1

(***************************************************************************)
(* Weights as binary64 numbers.  selectFormula above carries the weights   *)
(* exactly, which agrees with the doubles of the code as long as           *)
(* generator() * total is not a cumulative weight (true of DrawWords, but  *)
(* for generator() = 1, where both compute total).  Here every product and *)
(* sum is rounded as IEEE 754 rounds it (to nearest, ties to even).        *)
(* A natural number is a little-endian sequence of digits below DigitBase  *)
(* without a leading zero digit; a double m * 2^e, m >= 0, is [m, e] with  *)
(* m of exactly 53 bits, or m = <<>> for zero.                             *)
(***************************************************************************)
DigitBits == 14

DigitBase == Pow2(DigitBits)

MantissaBits == 53

Digit(a, i) == IF i <= Len(a) THEN a[i] ELSE 0

RECURSIVE BigTrim(_)
BigTrim(a) ==
  IF a = <<>> THEN a
  ELSE IF a[Len(a)] = 0 THEN BigTrim(SubSeq(a, 1, Len(a) - 1))
  ELSE a

BigFromInt(n) ==
  BigTrim(<<n % DigitBase, (n \div DigitBase) % DigitBase, n \div (DigitBase * DigitBase)>>)

RECURSIVE BigAddFrom(_, _, _, _, _)
BigAddFrom(a, b, i, carry, acc) ==
  IF i > Len(a) /\ i > Len(b) THEN (IF carry = 0 THEN acc ELSE Append(acc, carry))
  ELSE BigAddFrom(a, b, i + 1, (Digit(a, i) + Digit(b, i) + carry) \div DigitBase,
                  Append(acc, (Digit(a, i) + Digit(b, i) + carry) % DigitBase))

BigAdd(a, b) ==
  CHOOSE sum \in {BigTrim(BigAddFrom(x, y, 1, 0, <<>>)) : x \in {a}, y \in {b}} : TRUE

\* a - b for a >= b.
RECURSIVE BigSubFrom(_, _, _, _, _)
BigSubFrom(a, b, i, borrow, acc) ==
  IF i > Len(a) THEN acc
  ELSE BigSubFrom(a, b, i + 1, IF a[i] - Digit(b, i) - borrow < 0 THEN 1 ELSE 0,
                  Append(acc, (a[i] - Digit(b, i) - borrow + DigitBase) % DigitBase))

BigSub(a, b) ==
  CHOOSE diff \in {BigTrim(BigSubFrom(x, y, 1, 0, <<>>)) : x \in {a}, y \in {b}} : TRUE

\* a * d for a digit d.
RECURSIVE BigTimesFrom(_, _, _, _, _)
BigTimesFrom(a, d, i, carry, acc) ==
  IF i > Len(a) THEN (IF carry = 0 THEN acc ELSE Append(acc, carry))
  ELSE BigTimesFrom(a, d, i + 1, (a[i] * d + carry) \div DigitBase,
                    Append(acc, (a[i] * d + carry) % DigitBase))

BigTimesDigit(a, d) ==
  CHOOSE product \in {BigTrim(BigTimesFrom(x, d, 1, 0, <<>>)) : x \in {a}} : TRUE

\* a * DigitBase^n
BigShiftDigits(a, n) == IF a = <<>> THEN a ELSE [i \in 1..n |-> 0] \o a

RECURSIVE BigMulFrom(_, _, _, _)
BigMulFrom(a, b, j, acc) ==
  IF j > Len(b) THEN acc
  ELSE CHOOSE product \in
         {BigMulFrom(a, b, j + 1, next) :
            next \in {BigAdd(acc, BigShiftDigits(BigTimesDigit(a, b[j]), j - 1))}} : TRUE

BigMul(a, b) ==
  CHOOSE product \in {BigMulFrom(x, y, 1, <<>>) : x \in {a}, y \in {b}} : TRUE

\* floor(a / d) for a divisor 0 < d <= DigitBase.
RECURSIVE BigDivFrom(_, _, _, _, _)
BigDivFrom(a, d, i, rem, acc) ==
  IF i = 0 THEN acc
  ELSE BigDivFrom(a, d, i - 1, (rem * DigitBase + a[i]) % d,
                  <<(rem * DigitBase + a[i]) \div d>> \o acc)

BigDivSmall(a, d) ==
  CHOOSE quotient \in {BigTrim(BigDivFrom(x, d, Len(x), 0, <<>>)) : x \in {a}} : TRUE

\* a * 2^k and floor(a / 2^k)
BigShl(a, k) == BigShiftDigits(BigTimesDigit(a, Pow2(k % DigitBits)), k \div DigitBits)

BigShr(a, k) ==
  BigDivSmall(SubSeq(a, (k \div DigitBits) + 1, Len(a)), Pow2(k % DigitBits))

\* Bit i of a (bit 0 is the lowest), and whether the k lowest bits are zero.
BitAt(a, i) == (Digit(a, (i \div DigitBits) + 1) \div Pow2(i % DigitBits)) % 2

BigLowZero(a, k) ==
  /\ \A i \in 1..(k \div DigitBits) : Digit(a, i) = 0
  /\ Digit(a, (k \div DigitBits) + 1) % Pow2(k % DigitBits) = 0

\* The number of bits of a.
BigBits(a) ==
  IF a = <<>> THEN 0
  ELSE (Len(a) - 1) * DigitBits
         + (CHOOSE n \in 1..DigitBits : Pow2(n - 1) <= a[Len(a)] /\ a[Len(a)] < Pow2(n))

RECURSIVE BigLessFrom(_, _, _)
BigLessFrom(a, b, i) ==
  IF i = 0 THEN FALSE
  ELSE IF a[i] # b[i] THEN a[i] < b[i]
  ELSE BigLessFrom(a, b, i - 1)

BigLess(a, b) ==
  IF Len(a) # Len(b) THEN Len(a) < Len(b) ELSE BigLessFrom(a, b, Len(a))

DZero == [m |-> <<>>, e |-> 0]

\* The double nearest to (n + t) * 2^e, where 0 < t < 1 if inexact and
\* t = 0 otherwise; an inexact n has more than MantissaBits + 1 bits.
RoundBig(n, e, inexact) ==
  IF n = <<>> THEN DZero
  ELSE IF BigBits(n) <= MantissaBits
    THEN [m |-> BigShl(n, MantissaBits - BigBits(n)), e |-> e - (MantissaBits - BigBits(n))]
  ELSE LET k == BigBits(n) - MantissaBits
           up == /\ BitAt(n, k - 1) = 1
                 /\ (inexact \/ ~BigLowZero(n, k - 1) \/ BitAt(n, k) = 1)
       IN CHOOSE d \in
            {IF BigBits(r) > MantissaBits
               THEN [m |-> BigShr(r, 1), e |-> e + k + 1]
               ELSE [m |-> r, e |-> e + k] :
             r \in {IF up THEN BigAdd(BigShr(n, k), <<1>>) ELSE BigShr(n, k)}} : TRUE

\* An integer 0 <= n < 2^31 as a double; the decimal literal n/d (d a
\* digit), which the language rounds to the nearest double.
DFromInt(n) == RoundBig(BigFromInt(n), 0, FALSE)

DFromRatio(n, d) ==
  CHOOSE r \in
    {RoundBig(q, 0 - 70, BigTimesDigit(q, d) # BigShl(BigFromInt(n), 70)) :
       q \in {BigDivSmall(BigShl(BigFromInt(n), 70), d)}} : TRUE

DOne == DFromInt(1)

\* a * b, a + b, a - b (for a >= b) and a < b on doubles.
DMulOf(a, b) ==
  IF a.m = <<>> \/ b.m = <<>> THEN DZero
  ELSE CHOOSE r \in {RoundBig(n, a.e + b.e, FALSE) : n \in {BigMul(a.m, b.m)}} : TRUE

DMul(x, y) == CHOOSE r \in {DMulOf(a, b) : a \in {x}, b \in {y}} : TRUE

DAddOf(a, b) ==
  IF a.m = <<>> THEN b
  ELSE IF b.m = <<>> THEN a
  ELSE CHOOSE r \in
         {RoundBig(n, Min2(a.e, b.e), FALSE) :
            n \in {BigAdd(BigShl(a.m, a.e - Min2(a.e, b.e)),
                          BigShl(b.m, b.e - Min2(a.e, b.e)))}} : TRUE

DAdd(x, y) == CHOOSE r \in {DAddOf(a, b) : a \in {x}, b \in {y}} : TRUE

DSubOf(a, b) ==
  IF b.m = <<>> THEN a
  ELSE CHOOSE r \in
         {RoundBig(n, Min2(a.e, b.e), FALSE) :
            n \in {BigSub(BigShl(a.m, a.e - Min2(a.e, b.e)),
                          BigShl(b.m, b.e - Min2(a.e, b.e)))}} : TRUE

DSub(x, y) == CHOOSE r \in {DSubOf(a, b) : a \in {x}, b \in {y}} : TRUE

DLess(a, b) ==
  IF b.m = <<>> THEN FALSE
  ELSE IF a.m = <<>> THEN TRUE
  ELSE IF a.e # b.e THEN a.e < b.e
  ELSE BigLess(a.m, b.m)

\* generator(): word / UINT32_MAX.  The binary expansion of the quotient
\* repeats the 32 bits of the word, so that below 1 it is never halfway
\* between two doubles and 96 bits of it decide the rounding.
WordBig(u) == BigAdd(BigShl(BigFromInt(u.hi), 16), BigFromInt(u.lo))

DFromWord(u) ==
  IF u.hi = Half - 1 /\ u.lo = Half - 1 THEN DOne
  ELSE CHOOSE r \in
         {RoundBig(BigAdd(BigAdd(BigShl(w, 64), BigShl(w, 32)), w), 0 - 96, w # <<>>) :
            w \in {WordBig(u)}} : TRUE

\* Mutant of evaluateFormulaWeightDouble: the repetition penalty is applied to
\* the candidates of three notes or more only.
evaluateFormulaWeightLongOnly(policy, tipo, descriptor, baseWeight) ==
  LET length == Len(descriptor.pattern)
      byLength == IF <<tipo, length>> \in DOMAIN policy.config.lengthWeights
                    THEN DMul(DFromInt(baseWeight),
                              DFromRatio(policy.config.lengthWeights[<<tipo, length>>], 10))
                    ELSE DFromInt(baseWeight)
      byGroup == IF <<tipo, descriptor.group>> \in DOMAIN policy.config.groupWeights
                   THEN DMul(byLength,
                             DFromRatio(policy.config.groupWeights[<<tipo, descriptor.group>>], 10))
                   ELSE byLength
      penalty == ClampedPenalty(policy.config)
  IN IF penalty > 0 /\ policy.lastTipo = <<tipo>> /\ length >= 3
       THEN DMul(byGroup, DSub(DOne, DFromRatio(penalty, 20)))
       ELSE byGroup

\* evaluateFormulaWeight for multipliers that are not negative: weight *= the
\* length weight, *= the group weight, *= 1 - penalty, each product rounded.
evaluateFormulaWeightDouble(policy, tipo, descriptor, baseWeight) ==
  LET length == Len(descriptor.pattern)
      byLength == IF <<tipo, length>> \in DOMAIN policy.config.lengthWeights
                    THEN DMul(DFromInt(baseWeight),
                              DFromRatio(policy.config.lengthWeights[<<tipo, length>>], 10))
                    ELSE DFromInt(baseWeight)
      byGroup == IF <<tipo, descriptor.group>> \in DOMAIN policy.config.groupWeights
                   THEN DMul(byLength,
                             DFromRatio(policy.config.groupWeights[<<tipo, descriptor.group>>], 10))
                   ELSE byLength
      penalty == ClampedPenalty(policy.config)
  IN IF penalty > 0 /\ policy.lastTipo = <<tipo>>
       THEN DMul(byGroup, DSub(DOne, DFromRatio(penalty, 20)))
       ELSE byGroup

\* weights.reduce((sum, w) => sum + w, 0)
RECURSIVE DSumFrom(_, _, _)
DSumFrom(weights, i, sum) ==
  IF i > Len(weights) THEN sum ELSE DSumFrom(weights, i + 1, DAdd(sum, weights[i]))

DSum(weights) == CHOOSE total \in {DSumFrom(w, 1, DZero) : w \in {weights}} : TRUE

\* total > 0 ? sanitizedWeights : formulas.map(() => 1)
ResolveWeightsDouble(sanitized) ==
  IF DLess(DZero, DSum(sanitized)) THEN sanitized ELSE [i \in 1..Len(sanitized) |-> DOne]

RECURSIVE ChoiceLoopDouble(_, _, _, _)
ChoiceLoopDouble(weights, threshold, cumulative, i) ==
  IF i > Len(weights) THEN Len(weights)
  ELSE CHOOSE index \in
         {IF DLess(threshold, c) THEN i ELSE ChoiceLoopDouble(weights, threshold, c, i + 1) :
            c \in {DAdd(cumulative, weights[i])}} : TRUE

\* The index of the item choiceWeighted returns for weights that are finite,
\* not negative and not all zero, when generator() returns u / UINT32_MAX.
choiceWeightedDouble(items, weights, u) ==
  CHOOSE index \in
    {ChoiceLoopDouble(w, threshold, DZero, 1) :
       w \in {weights}, threshold \in {DMul(DFromWord(u), DSum(weights))}} : TRUE

\* selectFormula for a type 1 or 2 in the profile and a policy whose
\* multipliers are not negative: it returns.
selectFormulaDouble(profile, target, u, policy) ==
  LET tipo == profile[target.degree]
      formulas == flattenFormulas(getFormulas(tipo))
      weights == [i \in 1..Len(formulas) |->
                    evaluateFormulaWeightDouble(policy, tipo, formulas[i],
                                                BaseWeight(formulas[i]))] \o <<>>
  IN CHOOSE picked \in
       {[ok |-> TRUE,
         formula |-> formulas[choiceWeightedDouble(formulas, resolved, u)].pattern,
         policy |-> registerSelectedTipo(policy, tipo)] :
        resolved \in {ResolveWeightsDouble(weights) \o <<>>}} : TRUE

(***************************************************************************)
(* SpecDouble: calls of selectFormula on one policy manager, as SpecSelect, *)
(* with the weights as doubles.                                            *)
(***************************************************************************)
\* formula.lengthWeights and formula.groupWeights: absent, 1.5 for the
\* two-note formulas of type 1, 3 for the eight-note formulas of type 2,
\* and the multipliers of the policy tests.
DoubleWeights ==
  { [lengthWeights |-> NoWeights, groupWeights |-> NoWeights],
    [lengthWeights |-> (<<1, 2>> :> 15), groupWeights |-> NoWeights],
    [lengthWeights |-> (<<2, 8>> :> 30), groupWeights |-> NoWeights],
    [lengthWeights |-> (<<1, 3>> :> 5) @@ (<<1, 5>> :> 40),
     groupWeights |-> (<<1, "triples">> :> 6) @@ (<<1, "quintuples">> :> 30)] }

\* formula.repeatTipoPenalty, in twentieths: absent, 0.1, 0.7.
DoublePenalties == {<<>>, <<2>>, <<14>>}

DoubleConfigs ==
  {[lengthWeights |-> w.lengthWeights, groupWeights |-> w.groupWeights,
    repeatTipoPenalty |-> p, landingOrder |-> NoWeights] :
     w \in DoubleWeights, p \in DoublePenalties}

\* Words mulberry32 returns, with the state a it returns them from:
\* 0 (a = 0), 0x22222222 (a = 1701167463), 0x40000000 (a = 2782807133),
\* 0x77777777 (a = 1039601489) and 0xffffffff (a = 1080371100).
DoubleWords ==
  {[hi |-> 0, lo |-> 0], [hi |-> 8738, lo |-> 8738], [hi |-> 16384, lo |-> 0],
   [hi |-> 30583, lo |-> 30583], [hi |-> Half - 1, lo |-> Half - 1]}

InitDouble ==
  /\ progression = <<>>
  /\ slider = <<>>
  /\ config \in DoubleConfigs
  /\ run = NewRun(slider, config)
  /\ IdleDet
  /\ IdleGen
  /\ IdleFit
  /\ IdleApi
  /\ sel = <<[policy |-> createPolicyManager(config), call |-> <<>>, formula |-> <<>>]>>

\* A call of selectFormula for a target of type tipo when generator() gives u.
DoubleReturns ==
  /\ \E tipo \in FormulaTypes : \E u \in DoubleWords :
       \E picked \in {selectFormulaDouble(("3" :> tipo), [degree |-> "3"], u, sel[1].policy)} :
         sel' = <<[policy |-> picked.policy,
                   call |-> <<[tipo |-> tipo, u |-> u, policy |-> sel[1].policy]>>,
                   formula |-> <<picked.formula>>]>>
  /\ UNCHANGED <<apiVars, inputVars, schedVars, detVars, genVars, fitVars>>

NextDouble == DoubleReturns

SpecDouble == InitDouble /\ [][NextDouble]_vars

NeutralPolicy(call) ==
  [config |-> [call.policy.config EXCEPT !.repeatTipoPenalty = <<>>], lastTipo |-> <<>>]

\* generator() * total is, in exact arithmetic, the boundary between two
\* candidates: the sum of the unpenalised weights up to one of them.
OnBoundary(call) ==
  LET formulas == flattenFormulas(getFormulas(call.tipo))
      weights == ResolveWeights(SanitizeWeights(
                   [i \in 1..Len(formulas) |->
                      evaluateFormulaWeight(NeutralPolicy(call), call.tipo, formulas[i],
                                            BaseWeight(formulas[i]))]))
  IN \E i \in 1..(Len(weights) - 1) :
       /\ SumSeq(SubSeq(weights, 1, i)) > 0
       /\ WordTimes(call.u, SumSeq(weights)) = TimesUintMax(SumSeq(SubSeq(weights, 1, i)))

\* The position of a pattern among the candidates of a type.
CandidateIndex(tipo, pattern) ==
  CHOOSE i \in 1..Len(flattenFormulas(getFormulas(tipo))) :
    flattenFormulas(getFormulas(tipo))[i].pattern = pattern

C28_NoZeroWeightItem ==
  (sel # <<>> /\ sel[1].call # <<>> /\ sel[1].formula # <<>>) =>
     LET call == sel[1].call[1]
         formulas == flattenFormulas(getFormulas(call.tipo))
         resolved == ResolveWeights(SanitizeWeights(
                       [i \in 1..Len(formulas) |->
                          evaluateFormulaWeight(call.policy, call.tipo, formulas[i],
                                                BaseWeight(formulas[i]))]))
     IN resolved[CandidateIndex(call.tipo, sel[1].formula[1])] > 0

\* C29 as stated.  Pitch name agrees with midi: for every note of the list
\* scheduleProgression returns, pitchNameToMidi(note.pitch) = note.midi.
C29_PitchNamesMidi ==
  Returned => \A i \in 1..Len(Output) : pitchNameToMidi(Output[i].pitch) = Output[i].midi

\* The number of chords in the bars before bar b of a progression.
RECURSIVE ChordsBefore(_, _)
ChordsBefore(prog, b) ==
  IF b = 1 THEN 0 ELSE ChordsBefore(prog, b - 1) + Len(prog[b - 1])

\* The windows are contiguous from 0, and bar b gives one window of 8
\* eighths or two of 4 from the eighth 8 * (b - 1).
WindowsOfBars(prog, windows) ==
  /\ Len(windows) = ChordsBefore(prog, Len(prog) + 1)
  /\ windows # <<>> => windows[1].startEighth = 0
  /\ \A i \in 1..(Len(windows) - 1) :
       windows[i + 1].startEighth = windows[i].startEighth + windows[i].lengthEighths
  /\ \A i \in 1..Len(windows) : windows[i].startEighth % 4 = 0
  /\ \A b \in 1..Len(prog) :
       LET first == windows[ChordsBefore(prog, b) + 1]
       IN /\ first.startEighth = 8 * (b - 1)
          /\ Len(prog[b]) = 1 => first.lengthEighths = 8
          /\ Len(prog[b]) = 2 =>
               /\ first.lengthEighths = 4
               /\ windows[ChordsBefore(prog, b) + 2].startEighth = 8 * (b - 1) + 4
               /\ windows[ChordsBefore(prog, b) + 2].lengthEighths = 4

\* C30.  Parser windows: parseProgression raises an error iff a bar has more
\* than two chords; otherwise its windows are contiguous and ordered, from
\* startEighth 0, one window of 8 eighths for a bar of one chord and two of
\* 4 for a bar of two, every startEighth a multiple of 4; they are the
\* windows scheduleProgression works on.
C30_ParserWindows ==
  /\ parseProgression(progression).ok = (\A b \in 1..Len(progression) : Len(progression[b]) <= 2)
  /\ parseProgression(progression).ok =>
       WindowsOfBars(progression, parseProgression(progression).windows)
  /\ run.pc = "loop" =>
       /\ parseProgression(progression).ok
       /\ WindowsOfBars(progression, run.windows)

\* A bar of two chords followed by a bar of one: windows at 0, 4 and 8.
C30_Witness ==
  /\ run.pc = "loop"
  /\ Len(progression) = 2
  /\ Len(progression[1]) = 2
  /\ Len(progression[2]) = 1
  /\ Len(run.windows) = 3
  /\ run.windows[2].startEighth = 4
  /\ run.windows[3].startEighth = 8
  /\ run.windows[3].lengthEighths = 8

====
